---- MODULE Spec2Model ----
(***************************************************************************)
(* The inventory sync of developereleven11-create/inventory-analysis:      *)
(* the HTTP handler of pages/api/run-etl.js, the cron worker of            *)
(* worker/etl_worker.js and the webhook receiver of pages/api/webhooks.js, *)
(* all writing to the Postgres store declared by db/migrations/001_init.sql*)
(*                                                                         *)
(* Representation.                                                         *)
(*  - A table is the sequence of its rows in insertion order; an UPDATE    *)
(*    rewrites the row where it stands.  Uniqueness is nowhere built in:   *)
(*    it is whatever the statements below maintain.                        *)
(*  - A string is the sequence of its characters; a gid such as            *)
(*    gid://shopify/ProductVariant/2 is the sequence of its '/'-separated  *)
(*    segments; a decimal string is the number it denotes.                 *)
(*  - A nullable value is a sequence of length at most one, <<>> being     *)
(*    null/undefined.  For SKUs <<>> is null and the empty string alike:   *)
(*    every reader in the source goes through (x || ...) first.            *)
(*  - A date is a day number, the process and the database both on UTC.    *)
(*  - A JS number n/d is the pair [num |-> n, den |-> d]; comparisons      *)
(*    cross-multiply.                                                      *)
(***************************************************************************)
EXTENDS Integers, Sequences, FiniteSets, TLC

----------------------------------------------------------------------------
(* Bounds of the exploration *)

MaxRuns == 2
MaxHooks == 1
MaxDay == 1

\* largest month-to-date quantity of a row of the read endpoint
MaxQty == 100

\* largest daily_sales in a sparkline
MaxDaily == 2

\* largest 30-day sum behind a stored rolling30
MaxSum30 == 12

\* instants of a day that a timestamp of the read endpoint tells apart
TicksPerDay == 2

(* Constants of the program *)

DaysLen == 30
Avg30Div == 30
Last7 == 7
Avg7Div == 7
SqlWindow == 30
CoverThreshold == 14
ProductCap == 3000
ProductCapWorker == 20000
InvPageCap == 10
InvPageCapWorker == 40
InvPageCapPart == 20
InvPageMax == 10
InvLimit == 250
OrderPageCap == 40
OrderPageCapWorker == 200
OrderCountCap == 20000
OrderCountCapWorker == 50000
OrderCountCapGraph == 5000
ProductPageSize == 50

Runs == 1..MaxRuns

----------------------------------------------------------------------------
(* Values *)

Null == <<>>

IsNull(x) == x = <<>>

Some(x) == <<x>>

Val(x) == x[1]

Space == " "

RECURSIVE TrimLeft(_)
TrimLeft(s) ==
  IF s # <<>> /\ Head(s) = Space THEN TrimLeft(Tail(s)) ELSE s

RECURSIVE TrimRight(_)
TrimRight(s) ==
  IF s # <<>> /\ s[Len(s)] = Space THEN TrimRight(SubSeq(s, 1, Len(s) - 1)) ELSE s

\* String.prototype.trim
Trim(s) == TrimRight(TrimLeft(s))

\* gid.split('/') followed by taking the last part
Gid(type, n) == <<"gid:", "", "shopify", type, n>>

LastPart(parts) == parts[Len(parts)]

\* String(o.id) of a REST order id
Str(n) == <<n>>

RECURSIVE SumSeq(_)
SumSeq(s) == IF s = <<>> THEN 0 ELSE Head(s) + SumSeq(Tail(s))

\* x || d  for a nullable x
OrElse(x, d) == IF IsNull(x) THEN d ELSE Val(x)

----------------------------------------------------------------------------
(* The remote shop: what the Admin API serves, page by page.  A catalog is *)
(* a sequence of pages of product nodes, each with its variants; inventory *)
(* levels and orders are sequences of REST pages.                          *)

Variant(sku, id, inv) ==
  [sku |-> sku, id |-> Gid("ProductVariant", id),
   inventoryItem |-> Some(Gid("InventoryItem", inv))]

Product(id, variants) == [id |-> Gid("Product", id), variants |-> variants]

Level(item, sku, loc, avail) ==
  [inventory_item_id |-> item, sku |-> sku, location_id |-> loc, available |-> avail]

LineItem(sku, qty) == [sku |-> sku, quantity |-> Some(qty), price |-> 5]

Order(id, day, items) == [id |-> id, created_at |-> day, line_items |-> items]

SkuA == <<"A">>

SkuB == <<"B">>

CatalogA ==
  << <<Product(1, <<Variant(SkuA, 1, 1)>>)>>,
     <<Product(2, <<Variant(<<" ">>, 3, 3), Variant(<<" ", "B">>, 2, 2),
                    Variant(<<>>, 4, 4)>>)>> >>

CatalogB ==
  << <<Product(1, <<Variant(SkuA, 1, 1)>>)>> >>

LevelsA ==
  << <<Level(Some(1), Null, Some("L1"), Some(6)),
       Level(Some(1), Null, Some("L2"), Some(1))>>,
     <<Level(Some(2), Null, Some("L1"), Null)>> >>

LevelsB ==
  << <<Level(Some(1), Null, Some("L1"), Some(20))>>,
     <<Level(Null, SkuB, Null, Some(3))>> >>

OrdersA ==
  << <<Order(1, 0 - 10, <<LineItem(SkuA, 15)>>)>>,
     <<Order(2, 0, <<LineItem(<<>>, 1), LineItem(SkuA, 2), LineItem(SkuA, 1),
                     LineItem(<<" ">>, 1)>>)>> >>

OrdersB ==
  << <<Order(1, 0 - 10, <<LineItem(SkuA, 9)>>),
       Order(3, 0 - 30, <<LineItem(<<" ", "B">>, 4)>>)>> >>

\* cyclic: whether the last page of each listing names the first as its next;
\* slackFails: whether the Slack webhook may reject a post
Remotes ==
  { [catalog |-> CatalogA, levels |-> LevelsA, orders |-> OrdersA, cyclic |-> FALSE,
     slackFails |-> FALSE],
    [catalog |-> CatalogB, levels |-> LevelsB, orders |-> OrdersB, cyclic |-> FALSE,
     slackFails |-> FALSE] }

\* the same shops behind a Slack webhook that may reject any post
FlakyRemotes == { [rm EXCEPT !.slackFails = TRUE] : rm \in Remotes }

\* one page of products as large as the handler asks for (productPageSize)
CatalogWide ==
  << [i \in 1..ProductPageSize |-> Product(1, <<Variant(SkuA, 1, 1)>>)] >>

\* pages of one product each, whose only variant has no SKU
CatalogBlank ==
  << <<Product(3, <<Variant(<<" ">>, 3, 3)>>)>>,
     <<Product(4, <<Variant(<<>>, 4, 4)>>)>> >>

\* shops that signal a next page on every response, with the trigger that
\* reads them
CyclicCases ==
  { [kind |-> "api",
     remote |-> [catalog |-> CatalogWide, levels |-> LevelsA, orders |-> OrdersA,
                 cyclic |-> TRUE, slackFails |-> FALSE]],
    [kind |-> "worker",
     remote |-> [catalog |-> CatalogBlank, levels |-> LevelsA, orders |-> OrdersA,
                 cyclic |-> TRUE, slackFails |-> FALSE]] }

LocationsPayload == <<"L1", "L2">>

SkuC == <<"C">>

\* a shop whose variant ids and inventory item ids are different numbers:
\* the inventory item of A is 2, which is the variant id of B, and the
\* other way round; C is a variant whose inventoryItem did not come
CatalogCross ==
  << <<Product(1, <<Variant(SkuA, 1, 2), Variant(SkuB, 2, 1),
                    [sku |-> SkuC, id |-> Gid("ProductVariant", 3),
                     inventoryItem |-> Null]>>)>> >>

\* one page of levels: of the item of A, of the item of B, of an item no
\* variant has and without a SKU, of an unknown item that carries the SKU
\* of C, and one with neither an item id nor a SKU
LevelsCross ==
  << <<Level(Some(2), Null, Some("L1"), Some(5)),
       Level(Some(1), Null, Some("L1"), Some(7)),
       Level(Some(9), Null, Some("L1"), Some(1)),
       Level(Some(7), SkuC, Some("L1"), Some(4)),
       Level(Null, Null, Null, Some(2))>> >>

\* three pages of levels of the item of A
LevelsLong ==
  << <<Level(Some(1), Null, Some("L1"), Some(6))>>,
     <<Level(Some(1), Null, Some("L2"), Some(1))>>,
     <<Level(Some(1), Null, Some("L3"), Some(2))>> >>

\* the shops the editions of run-etl.js are compared on
PartRemotes ==
  { [catalog |-> CatalogCross, levels |-> LevelsCross, orders |-> OrdersB,
     cyclic |-> FALSE, slackFails |-> FALSE],
    [catalog |-> CatalogB, levels |-> LevelsLong, orders |-> OrdersA,
     cyclic |-> FALSE, slackFails |-> FALSE] }

\* the editions of pages/api/run-etl.js
Editions == {"run-etl.js", "part_002"}

\* Bodies the shop posts to the webhook endpoint
OrderHooks ==
  { Order(1, 0 - 10, <<LineItem(SkuA, 15)>>),
    Order(4, 0 - 6, <<LineItem(SkuB, 1), LineItem(SkuB, 2)>>),
    Order(5, 0 - 29, <<LineItem(SkuB, 3)>>) }

InventoryHooks ==
  { Level(Some(1), SkuA, Some("L1"), Some(2)),
    Level(Some(1), Null, Some("L1"), Some(6)) }

----------------------------------------------------------------------------
(* The store: the statements of the handlers as functions on tables *)

\* the statement without its ON CONFLICT clause on a table without the key
UpsertProductRow_Insert(tbl, row) == Append(tbl, row)

\* INSERT INTO products (...) ON CONFLICT (sku) DO UPDATE SET ..., with the
\* inventory_item_id column (run-etl.js)
UpsertProductRow(tbl, row) ==
  LET hit == {i \in 1..Len(tbl) : tbl[i].sku = row.sku}
  IN IF hit = {} THEN Append(tbl, row)
     ELSE [i \in 1..Len(tbl) |-> IF i \in hit THEN row ELSE tbl[i]]

\* the same statement without the inventory_item_id column (etl_worker.js,
\* part_004)
UpsertProductRowWorker(tbl, row) ==
  LET hit == {i \in 1..Len(tbl) : tbl[i].sku = row.sku}
  IN IF hit = {} THEN Append(tbl, [row EXCEPT !.inventory_item_id = Null])
     ELSE [i \in 1..Len(tbl) |->
             IF i \in hit
             THEN [row EXCEPT !.inventory_item_id = tbl[i].inventory_item_id]
             ELSE tbl[i]]

\* the statement as a plain INSERT
UpsertInventoryRow_Insert(tbl, row) == Append(tbl, row)

\* INSERT INTO inventory_levels (...) ON CONFLICT (sku, location_id) DO UPDATE
\* on a table that has the unique index the conflict target names; a null
\* sku equals no other null in a unique index, so such a row never conflicts
UpsertInventoryRow(tbl, row) ==
  LET hit == {i \in 1..Len(tbl) :
                /\ ~IsNull(row.sku)
                /\ tbl[i].sku = row.sku
                /\ tbl[i].location_id = row.location_id}
  IN IF hit = {} THEN Append(tbl, row)
     ELSE [i \in 1..Len(tbl) |-> IF i \in hit THEN row ELSE tbl[i]]

\* the insert with an arbiter index that also covers quantity
InsertLineItemRow_QuantityKeyed(tbl, row) ==
  IF \E i \in 1..Len(tbl) : /\ tbl[i].order_id = row.order_id
                            /\ tbl[i].sku = row.sku
                            /\ tbl[i].quantity = row.quantity
  THEN tbl
  ELSE Append(tbl, row)

\* the insert without its ON CONFLICT clause on a table without the index
InsertLineItemRow_Always(tbl, row) == Append(tbl, row)

\* the insert with ON CONFLICT (order_id, sku) DO UPDATE SET quantity, price,
\* created_at, as the other tables are written
InsertLineItemRow_Update(tbl, row) ==
  IF \E i \in 1..Len(tbl) : tbl[i].order_id = row.order_id /\ tbl[i].sku = row.sku
  THEN [i \in 1..Len(tbl) |->
          IF tbl[i].order_id = row.order_id /\ tbl[i].sku = row.sku THEN row
          ELSE tbl[i]]
  ELSE Append(tbl, row)

\* INSERT INTO orders_lineitems (...) ON CONFLICT DO NOTHING, the arbiter
\* being the unique index orders_lineitems_unique (order_id, sku)
InsertLineItemRow(tbl, row) ==
  IF \E i \in 1..Len(tbl) : tbl[i].order_id = row.order_id /\ tbl[i].sku = row.sku
  THEN tbl
  ELSE Append(tbl, row)

\* the metrics upsert with ON CONFLICT (sku,date) DO NOTHING
UpsertMetricRow_KeepFirst(tbl, row) ==
  IF \E i \in 1..Len(tbl) : tbl[i].sku = row.sku /\ tbl[i].date = row.date
  THEN tbl
  ELSE Append(tbl, row)

\* the metrics upsert whose DO UPDATE SET leaves out current_stock and
\* days_of_cover
UpsertMetricRow_PartialUpdate(tbl, row) ==
  LET hit == {i \in 1..Len(tbl) : tbl[i].sku = row.sku /\ tbl[i].date = row.date}
  IN IF hit = {} THEN Append(tbl, row)
     ELSE [i \in 1..Len(tbl) |->
             IF i \in hit
             THEN [row EXCEPT !.current_stock = tbl[i].current_stock,
                              !.days_of_cover = tbl[i].days_of_cover]
             ELSE tbl[i]]

\* INSERT INTO metrics_daily (...) ON CONFLICT (sku,date) DO UPDATE SET ...
UpsertMetricRow(tbl, row) ==
  LET hit == {i \in 1..Len(tbl) : tbl[i].sku = row.sku /\ tbl[i].date = row.date}
  IN IF hit = {} THEN Append(tbl, row)
     ELSE [i \in 1..Len(tbl) |-> IF i \in hit THEN row ELSE tbl[i]]

\* INSERT INTO locations (...) ON CONFLICT (location_id) DO UPDATE SET name
UpsertLocationRow(tbl, row) ==
  LET hit == {i \in 1..Len(tbl) : tbl[i].location_id = row.location_id}
  IN IF hit = {} THEN Append(tbl, row)
     ELSE [i \in 1..Len(tbl) |-> IF i \in hit THEN row ELSE tbl[i]]

\* for (const l of locs) await client.query(`INSERT INTO locations ...`)
RECURSIVE UpsertLocations(_, _)
UpsertLocations(tbl, ls) ==
  IF ls = <<>> THEN tbl
  ELSE UpsertLocations(UpsertLocationRow(tbl, [location_id |-> Head(ls)]), Tail(ls))

\* SELECT created_at::date as day, SUM(quantity) as qty FROM orders_lineitems
\* WHERE sku=$1 AND created_at >= CURRENT_DATE - INTERVAL '30 days' GROUP BY day,
\* read into the object  daily[day] = qty
SelectDailySales(tbl, sku, currentDate) ==
  LET rows == SelectSeq(tbl, LAMBDA r : r.sku = sku /\ r.created_at >= currentDate - SqlWindow)
      dayset == {rows[i].created_at : i \in 1..Len(rows)}
      qtys(d) == SelectSeq(rows, LAMBDA r : r.created_at = d)
  IN [d \in dayset |-> SumSeq([i \in 1..Len(qtys(d)) |-> qtys(d)[i].quantity])]

\* the stock query without SUM: rows[0] is one location's row
SelectStockTotal_FirstRow(tbl, sku) ==
  LET rows == SelectSeq(tbl, LAMBDA r : r.sku = sku)
  IN IF rows = <<>> THEN Null ELSE Some(rows[1].available)

\* the stock query with COUNT(available) in place of SUM(available)
SelectStockTotal_CountRows(tbl, sku) ==
  LET rows == SelectSeq(tbl, LAMBDA r : r.sku = sku)
  IN Some(Len(rows))

\* SELECT SUM(available) as total FROM inventory_levels WHERE sku=$1 :
\* one row, its total null when no row matches
SelectStockTotal(tbl, sku) ==
  LET rows == SelectSeq(tbl, LAMBDA r : r.sku = sku)
  IN IF rows = <<>> THEN Null
     ELSE Some(SumSeq([i \in 1..Len(rows) |-> rows[i].available]))

----------------------------------------------------------------------------
(* The pure parts of the handlers *)

\* for (const p of products) for (const vEdge of p.variants.edges) { ... }:
\* the parameter rows of the product upserts, variants without a SKU skipped
\* break in place of continue: a variant without a SKU ends the product
RECURSIVE VariantRows_StopAtBlank(_, _)
VariantRows_StopAtBlank(p, vs) ==
  IF vs = <<>> \/ Trim(Head(vs).sku) = <<>> THEN <<>>
  ELSE LET v == Head(vs)
           invNumeric == IF IsNull(v.inventoryItem) THEN Null
                         ELSE Some(LastPart(Val(v.inventoryItem)))
       IN << [sku |-> Trim(v.sku), product_id |-> p.id, variant_id |-> Some(v.id),
              inventory_item_id |-> invNumeric] >>
          \o VariantRows_StopAtBlank(p, Tail(vs))

RECURSIVE VariantRows(_, _)
VariantRows(p, vs) ==
  IF vs = <<>> THEN <<>>
  ELSE LET v == Head(vs)
           sku == Trim(v.sku)
           invNumeric == IF IsNull(v.inventoryItem) THEN Null
                         ELSE Some(LastPart(Val(v.inventoryItem)))
       IN (IF sku = <<>> THEN <<>>
           ELSE << [sku |-> sku, product_id |-> p.id, variant_id |-> Some(v.id),
                    inventory_item_id |-> invNumeric] >>)
          \o VariantRows(p, Tail(vs))

RECURSIVE ProductRows(_)
ProductRows(ps) ==
  IF ps = <<>> THEN <<>>
  ELSE IF Len(ps) = 1 THEN VariantRows(ps[1], ps[1].variants)
  ELSE LET h == Len(ps) \div 2
       IN ProductRows(SubSeq(ps, 1, h)) \o ProductRows(SubSeq(ps, h + 1, Len(ps)))

\* for (const r of skuRows.rows) { ... invItemToSku[numeric] = r.sku }
\* over SELECT sku, variant_id FROM products WHERE variant_id IS NOT NULL:
\* a later row replaces an earlier one with the same numeric tail
RECURSIVE BuildInvItemToSku(_, _)
BuildInvItemToSku(rows, map) ==
  IF rows = <<>> THEN map
  ELSE LET r == Head(rows)
           numeric == LastPart(Val(r.variant_id))
       IN BuildInvItemToSku(Tail(rows),
            [k \in DOMAIN map \cup {numeric} |-> IF k = numeric THEN r.sku ELSE map[k]])

EmptyMap == [k \in {} |-> Null]

SelectVariantIds(tbl) == SelectSeq(tbl, LAMBDA r : ~IsNull(r.variant_id))

\* part_002: SELECT sku, inventory_item_id FROM products WHERE
\* inventory_item_id IS NOT NULL
SelectInventoryItemIds(tbl) == SelectSeq(tbl, LAMBDA r : ~IsNull(r.inventory_item_id))

\* part_002: for (const r of skuRows.rows) if (r.inventory_item_id)
\* invItemToSku[String(r.inventory_item_id)] = r.sku
RECURSIVE BuildItemMap(_, _)
BuildItemMap(rows, map) ==
  IF rows = <<>> THEN map
  ELSE LET r == Head(rows)
           key == Val(r.inventory_item_id)
       IN BuildItemMap(Tail(rows),
            [k \in DOMAIN map \cup {key} |-> IF k = key THEN r.sku ELSE map[k]])

\* part_002: invItemId && invItemToSku[invItemId] ? invItemToSku[invItemId] : null
MappedSku(item, map) ==
  IF ~IsNull(item.inventory_item_id) /\ Val(item.inventory_item_id) \in DOMAIN map
  THEN map[Val(item.inventory_item_id)]
  ELSE Null

\* part_002: item.sku ? String(item.sku).trim() : null
SkuFromRow(item) == Trim(item.sku)

\* part_002: 'invitem_' + invItemId
Placeholder(invItemId) == <<"invitem_">> \o Str(Val(invItemId))

\* part_002: the parameters of the inventory_levels statement of one item,
\* sku || skuFromRow || (invItemId ? ('invitem_' + invItemId) : null)
LevelRow(item, sku) ==
  [sku |-> IF sku # Null THEN sku
           ELSE IF SkuFromRow(item) # <<>> THEN SkuFromRow(item)
           ELSE IF ~IsNull(item.inventory_item_id)
           THEN Placeholder(item.inventory_item_id)
           ELSE Null,
   location_id |-> OrElse(item.location_id, "unknown"),
   available |-> OrElse(item.available, 0),
   inventory_item_id |-> item.inventory_item_id]

\* part_002: UPDATE products SET inventory_item_id=$1 WHERE sku=$2
BackfillProduct(tbl, invItemId, sku) ==
  [i \in 1..Len(tbl) |->
     IF tbl[i].sku = sku THEN [tbl[i] EXCEPT !.inventory_item_id = invItemId]
     ELSE tbl[i]]

\* for (const item of invLevels) { ... }: the parameter rows of the inventory
\* upserts, items that resolve to no SKU skipped
RECURSIVE InventoryRows(_, _)
InventoryRows(items, map) ==
  IF items = <<>> THEN <<>>
  ELSE LET item == Head(items)
           invItemId == item.inventory_item_id
           sku == IF ~IsNull(invItemId) /\ Val(invItemId) \in DOMAIN map
                  THEN map[Val(invItemId)]
                  ELSE item.sku
       IN (IF IsNull(sku) THEN <<>>
           ELSE << [sku |-> sku, location_id |-> OrElse(item.location_id, "unknown"),
                    available |-> OrElse(item.available, 0)] >>)
          \o InventoryRows(Tail(items), map)

\* for (const li of line_items) { ... }: the parameter rows of the line item
\* inserts of one order, items without a SKU skipped; run-etl.js writes
\* price 0, etl_worker.js and webhooks.js write li.price
RECURSIVE LineItemRows(_, _, _)
LineItemRows(o, lis, keepPrice) ==
  IF lis = <<>> THEN <<>>
  ELSE LET li == Head(lis)
           sku == Trim(li.sku)
       IN (IF sku = <<>> THEN <<>>
           ELSE << [order_id |-> Str(o.id), sku |-> sku,
                    quantity |-> OrElse(li.quantity, 0),
                    price |-> IF keepPrice THEN li.price ELSE 0,
                    created_at |-> o.created_at] >>)
          \o LineItemRows(o, Tail(lis), keepPrice)

\* part_004: the node of an order in the GraphQL listing, whose id is the
\* global id gid://shopify/Order/<number> (the segments between the slashes)
OrderNode(o) == [o EXCEPT !.id = Gid("Order", o.id)]

\* part_004, for (const liEdge of o.lineItems.edges) { ... }: the parameter
\* rows [o.id, sku, li.quantity || 0, 0, o.createdAt] of one order node
RECURSIVE NodeRows(_, _)
NodeRows(o, lis) ==
  IF lis = <<>> THEN <<>>
  ELSE LET li == Head(lis)
           sku == Trim(li.sku)
       IN (IF sku = <<>> THEN <<>>
           ELSE << [order_id |-> o.id, sku |-> sku,
                    quantity |-> OrElse(li.quantity, 0), price |-> 0,
                    created_at |-> o.created_at] >>)
          \o NodeRows(o, Tail(lis))

\* part_004, for (const o of orders) { ... }
RECURSIVE GraphRows(_)
GraphRows(os) ==
  IF os = <<>> THEN <<>>
  ELSE NodeRows(Head(os), Head(os).line_items) \o GraphRows(Tail(os))

RECURSIVE OrderRows(_, _)
OrderRows(os, keepPrice) ==
  IF os = <<>> THEN <<>>
  ELSE LineItemRows(Head(os), Head(os).line_items, keepPrice)
       \o OrderRows(Tail(os), keepPrice)

\* for (let i = 29; i >= 0; i--) days.push(daily[dayjs().subtract(i,'day')] || 0)
DaysOf(daily, now) ==
  [k \in 1..DaysLen |->
     LET d == now - (DaysLen - k)
     IN IF d \in DOMAIN daily THEN daily[d] ELSE 0]

\* days.slice(0, 7): the oldest seven days
LastDays_Oldest(days) == SubSeq(days, 1, Last7)

\* days.slice(-7)
LastDays(days) == SubSeq(days, Len(days) - Last7 + 1, Len(days))

\* daily[today] || 0
TodaySales(daily, today) == IF today \in DOMAIN daily THEN daily[today] ELSE 0

\* stockRes.rowCount ? Number(stockRes.rows[0].total || 0) : 0
CurrentStock(total) == OrElse(total, 0)

\* current_stock / avg30 without the guard
DaysOfCover_Unguarded(current_stock, sum30) ==
  Some([num |-> current_stock * Avg30Div, den |-> sum30])

\* avg30 > 0 ? (current_stock / avg30) : null   with avg30 = sum30 / 30
DaysOfCover(current_stock, sum30) ==
  IF sum30 > 0 THEN Some([num |-> current_stock * Avg30Div, den |-> sum30])
  ELSE Null

\* days_of_cover !== null && days_of_cover < 14
ShouldAlert_Strict(days_of_cover) ==
  /\ ~IsNull(days_of_cover)
  /\ Val(days_of_cover).num < CoverThreshold * Val(days_of_cover).den

\* days_of_cover !== null && days_of_cover <= 14
ShouldAlert(days_of_cover) ==
  /\ ~IsNull(days_of_cover)
  /\ Val(days_of_cover).num <= CoverThreshold * Val(days_of_cover).den

----------------------------------------------------------------------------
(* State *)

VARIABLES
  products,          \* table products
  locations,         \* table locations
  inventory_levels,  \* table inventory_levels
  orders_lineitems,  \* table orders_lineitems
  metrics_daily,     \* table metrics_daily
  inventoryKeyed,    \* whether inventory_levels has a unique index on (sku, location_id)
  clock,             \* the current day
  hooks,             \* webhook deliveries that reached the store so far
  lastLevel,         \* the row of the latest inventory_levels statement issued
  run,               \* the local state of each invocation of the sync
  view,              \* one row of the read endpoint and the trend it is given
  stateFile          \* the last_run of the worker's state file, if it has one

store == <<products, locations, inventory_levels, orders_lineitems, metrics_daily,
          lastLevel>>

vars == <<products, locations, inventory_levels, orders_lineitems, metrics_daily,
          inventoryKeyed, clock, hooks, lastLevel, run, view, stateFile>>

Kinds == {"api", "worker"}

\* The locals of one invocation.  pc is the statement awaited next.  wrote,
\* seenOrders, windowNow, seenStock, wrote, alerts, computed, counts,
\* hooksAtEnd and fetchFailed record what the invocation saw and did; no
\* action reads them.  edition is the edition of pages/api/run-etl.js that a
\* request reaches; sku is the SKU the inventory loop of part_002 resolved.
IdleRun ==
  [pc |-> "idle", kind |-> "api", status |-> 0, outcome |-> "none",
   remote |-> [catalog |-> <<>>, levels |-> <<>>, orders |-> <<>>, cyclic |-> FALSE,
              slackFails |-> FALSE],
   products |-> <<>>, cursor |-> 0, hasNextPage |-> FALSE, total |-> 0,
   todo |-> <<>>,
   invLevels |-> <<>>, pages |-> 0, nextUrl |-> Null, invItemToSku |-> EmptyMap,
   orders |-> <<>>, pageCount |-> 0, next |-> Null,
   skus |-> <<>>, today |-> 0, daily |-> EmptyMap,
   sum30 |-> 0, sum7 |-> 0, todaySales |-> 0, current_stock |-> 0,
   days_of_cover |-> Null,
   seenOrders |-> 0, windowNow |-> 0, seenStock |-> <<>>,
   wrote |-> {}, alerts |-> {}, computed |-> <<>>, counts |-> <<>>,
   hooksAtEnd |-> 0, fetchFailed |-> {}, undelivered |-> {},
   request |-> [header |-> Null, query |-> Null],
   edition |-> "run-etl.js", sku |-> Null]

\* the read endpoint before it is asked
IdleView ==
  [pc |-> "idle", file |-> "skus-live.js", mtd |-> Null, prev_mtd |-> Null,
   series |-> <<>>, rolling30 |-> Null, trend |-> "steady"]

Init ==
  /\ products = <<>>
  /\ locations = <<>>
  /\ inventory_levels = <<>>
  /\ orders_lineitems = <<>>
  /\ metrics_daily = <<>>
  /\ inventoryKeyed \in BOOLEAN
  /\ clock = 0
  /\ hooks = 0
  /\ lastLevel = Null
  /\ run = [r \in Runs |-> IdleRun]
  /\ view = IdleView
  /\ stateFile = Null

Counts == <<Len(products), Len(inventory_levels), Len(orders_lineitems)>>

\* the handler has returned: its locals are gone, what it fetched and did
\* stays on record
Returned(rec) ==
  [IdleRun EXCEPT !.pc = "done", !.kind = rec.kind, !.status = rec.status,
                  !.outcome = rec.outcome, !.products = rec.products,
                  !.invLevels = rec.invLevels, !.orders = rec.orders,
                  !.today = rec.today, !.wrote = rec.wrote, !.alerts = rec.alerts,
                  !.fetchFailed = rec.fetchFailed,
                  !.undelivered = rec.undelivered, !.request = rec.request,
                  !.edition = rec.edition,
                  !.counts = Counts, !.hooksAtEnd = hooks]

\* return res.status(500).send('ETL failed: ...') of the handler's catch;
\* the catch of main() in the worker, which answers nobody
Failed(rec) ==
  Returned([rec EXCEPT !.outcome = "failed",
                       !.status = IF rec.kind = "api" THEN 500 ELSE 0])

\* the product loop inside a try/catch of its own, like the inventory fetch
ProductsFailed_Swallowed(rec) ==
  [rec EXCEPT !.fetchFailed = @ \cup {"products"},
              !.pc = IF rec.kind = "api" THEN "locations" ELSE "inventory"]

\* throw new Error(`Shopify productsPage failed ...`), or the rejection of
\* the request itself: nothing between the loop and the outer catch
ProductsFailed(rec) == Failed([rec EXCEPT !.fetchFailed = @ \cup {"products"}])

\* where the handler goes once the products are stored
AfterProducts(rec) ==
  IF rec.kind = "worker" /\ rec.hasNextPage /\ ~(rec.total > ProductCapWorker)
  THEN [rec EXCEPT !.pc = "products"]
  ELSE IF rec.kind = "api" THEN [rec EXCEPT !.pc = "locations"]
  ELSE [rec EXCEPT !.pc = "inventory"]

\* the handler going from the inventory writes straight to the metrics
AfterInventory_MetricsFirst(rec) == [rec EXCEPT !.pc = "skus", !.todo = <<>>]

\* where the handler goes once the inventory levels are stored
AfterInventory(rec) == [rec EXCEPT !.pc = "orders", !.todo = <<>>]

\* main() saving its state before computeMetrics
AfterOrders_SkipMetrics(rec) == [rec EXCEPT !.pc = "complete", !.todo = <<>>]

\* where the handler goes once the line items are stored
AfterOrders(rec) == [rec EXCEPT !.pc = "skus", !.todo = <<>>]

----------------------------------------------------------------------------
(* The numbers of the read endpoint.  A JavaScript Number is an IEEE-754   *)
(* double; here it is [m, e], standing for m * 2^e, with m a natural in    *)
(* binary, least significant bit first, without leading zeros (<<>> is 0). *)
(* The quantities involved are far from the ends of the exponent range.    *)

\* significant bits of a double
Precision == 53

RECURSIVE ToBits(_)
ToBits(n) == IF n = 0 THEN <<>> ELSE <<n % 2>> \o ToBits(n \div 2)

\* a + b + carry for a and b of one length, by halves: the sum bits and the
\* carry out
RECURSIVE AddHalves(_, _, _)
AddHalves(a, b, carry) ==
  LET n == Len(a)
      h == n \div 2
  IN IF n = 0 THEN [s |-> <<>>, c |-> carry]
     ELSE IF n = 1 THEN [s |-> <<(a[1] + b[1] + carry) % 2>>,
                         c |-> (a[1] + b[1] + carry) \div 2]
     ELSE LET lo == AddHalves(SubSeq(a, 1, h), SubSeq(b, 1, h), carry)
              hi == AddHalves(SubSeq(a, h + 1, n), SubSeq(b, h + 1, n), lo.c)
          IN [s |-> lo.s \o hi.s, c |-> hi.c]

AddBits(a, b) ==
  LET n == IF Len(a) < Len(b) THEN Len(b) ELSE Len(a)
      sum == AddHalves(a \o [i \in 1..(n - Len(a)) |-> 0],
                       b \o [i \in 1..(n - Len(b)) |-> 0], 0)
  IN IF sum.c = 1 THEN sum.s \o <<1>> ELSE sum.s

ShiftLeft(a, k) == IF a = <<>> THEN a ELSE [i \in 1..k |-> 0] \o a

\* a * b, b taken by halves; b may have leading zeros
RECURSIVE MulBits(_, _)
MulBits(a, b) ==
  LET n == Len(b)
      h == n \div 2
  IN IF n = 0 THEN <<>>
     ELSE IF n = 1 THEN (IF b[1] = 1 THEN a ELSE <<>>)
     ELSE AddBits(MulBits(a, SubSeq(b, 1, h)),
                  ShiftLeft(MulBits(a, SubSeq(b, h + 1, n)), h))

\* a without its leading zeros
StripZeros(a) ==
  LET ones == {i \in 1..Len(a) : a[i] = 1}
  IN IF ones = {} THEN <<>>
     ELSE SubSeq(a, 1, CHOOSE i \in ones : \A j \in ones : j <= i)

\* m * 2^e with the low zero bits of m moved into e
Reduce(m, e) ==
  LET ones == {i \in 1..Len(m) : m[i] = 1}
      low == CHOOSE i \in ones : \A j \in ones : i <= j
  IN IF ones = {} THEN [m |-> <<>>, e |-> e]
     ELSE [m |-> SubSeq(m, low, Len(m)), e |-> e + low - 1]

LessBits(a, b) ==
  IF Len(a) # Len(b) THEN Len(a) < Len(b)
  ELSE \E i \in 1..Len(a) :
         /\ a[i] < b[i]
         /\ \A j \in (i + 1)..Len(a) : a[j] = b[j]

\* round to nearest, ties to even: m * 2^e, plus a nonzero part below the
\* last bit of m when inexact, brought to Precision bits
RoundDouble(m, e, inexact) ==
  LET d == Len(m) - Precision
  IN IF d <= 0 THEN Reduce(m, e)
     ELSE LET kept == SubSeq(m, d + 1, Len(m))
              below == inexact \/ \E i \in 1..(d - 1) : m[i] = 1
              up == m[d] = 1 /\ (below \/ kept[1] = 1)
              r == IF up THEN AddBits(kept, <<1>>) ELSE kept
          IN Reduce(r, e + d)

\* an integer held exactly
FromInt(n) == [m |-> ToBits(n), e |-> 0]

\* x * y
MulDouble(x, y) == RoundDouble(MulBits(x.m, y.m), x.e + y.e, FALSE)

\* 2^i modulo b, by squaring
RECURSIVE PowMod(_, _)
PowMod(i, b) ==
  IF i = 0 THEN 1 % b
  ELSE IF i % 2 = 0 THEN (PowMod(i \div 2, b) * PowMod(i \div 2, b)) % b
  ELSE (2 * PowMod(i - 1, b)) % b

\* what is left of r / b after i bits behind the binary point, for r < b
Remainder(r, b, i) == (r * PowMod(i, b)) % b

\* a / b for naturals a and b > 0, by long division to k bits behind the
\* binary point; also the value of a decimal literal a / b
DivDouble(a, b) ==
  LET k == Precision + 2 + Len(ToBits(b))
      fraction == [j \in 1..k |-> (2 * Remainder(a % b, b, k - j)) \div b]
  IN RoundDouble(StripZeros(fraction \o ToBits(a \div b)), 0 - k,
                 Remainder(a % b, b, k) # 0)

\* x <= y
LeqDouble(x, y) ==
  LET e == IF x.e < y.e THEN x.e ELSE y.e
      a == ShiftLeft(x.m, x.e - e)
      b == ShiftLeft(y.m, y.e - e)
  IN a = b \/ LessBits(a, b)

\* the literals 1.5 and 0.7
Fast == DivDouble(15, 10)

Slow == DivDouble(7, 10)

\* safeNum(v, fallback) of an integer column
safeNum(v, fallback) == IF IsNull(v) THEN fallback ELSE Val(v)

\* Number(text of a NUMERIC column that the sync wrote as num / den)
NumberOf(q) == DivDouble(q.num, q.den)

\* avg7 = series.reduce((a,b)=>a+b,0) / (series.length || 1)
Avg7(series) == DivDouble(SumSeq(series), IF Len(series) = 0 THEN 1 ELSE Len(series))

\* if (x >= 1.5 * base) 'fast' else if (x <= 0.7 * base) 'slow', else the
\* initial 'steady'
Compare(x, base) ==
  IF LeqDouble(MulDouble(Fast, base), x) THEN "fast"
  ELSE IF LeqDouble(x, MulDouble(Slow, base)) THEN "slow"
  ELSE "steady"

\* skus-live.js: Number(r.rolling30 || 1), r.rolling30 being null or the
\* non-empty text of the NUMERIC
Rolling30Live(rolling30) ==
  IF IsNull(rolling30) THEN FromInt(1) ELSE NumberOf(Val(rolling30))

\* part_005: avg_daily_30 = safeNum(row.rolling30, 0), then avg_daily_30 || 1
Rolling30Part(rolling30) ==
  LET avg_daily_30 == IF IsNull(rolling30) THEN FromInt(0)
                      ELSE NumberOf(Val(rolling30))
  IN IF avg_daily_30.m = <<>> THEN FromInt(1) ELSE avg_daily_30

\* the trend given to one row, in either edition of the endpoint
Trend(file, mtd, prev_mtd, series, rolling30) ==
  LET m == safeNum(mtd, 0)
      prev == safeNum(prev_mtd, 0)
  IN IF prev > 0 THEN Compare(FromInt(m), FromInt(prev))
     ELSE Compare(Avg7(series),
                  IF file = "skus-live.js" THEN Rolling30Live(rolling30)
                  ELSE Rolling30Part(rolling30))

----------------------------------------------------------------------------
(* One invocation of the sync, statement by statement *)

\* const ETL_SECRET = process.env.ETL_SECRET || 'change_this_secret'
ETL_SECRET == "change_this_secret"

\* what a request may carry as x-etl-secret header or as secret parameter
SecretValues == {Null, Some(""), Some("guess"), Some(ETL_SECRET)}

AllRequests == [header : SecretValues, query : SecretValues]

\* a request with the secret in its header, and one with no secret at all
Requests ==
  { [header |-> Some(ETL_SECRET), query |-> Null],
    [header |-> Null, query |-> Null] }

\* any secret at all opens the door
Authorized_AnyKey(request) ==
  ~IsNull(request.header) \/ ~IsNull(request.query)

\* const key = req.headers['x-etl-secret'] || req.query.secret;
\* the negation of  key !== ETL_SECRET
Authorized(request) ==
  LET key == IF IsNull(request.header) \/ request.header = Some("")
             THEN request.query ELSE request.header
  IN key = Some(ETL_SECRET)

\* handler: the secret and configuration checks, pool.connect();
\* main(): pool.connect(), getState()
Begin(r, kind, request, configured, remote) ==
  run' = [run EXCEPT ![r] =
    IF kind = "api" /\ ~Authorized(request)
    THEN Returned([@ EXCEPT !.kind = kind, !.status = 401,
                            !.outcome = "unauthorized", !.request = request])
    ELSE IF kind = "api" /\ ~configured
    THEN Returned([@ EXCEPT !.kind = kind, !.status = 500,
                            !.outcome = "misconfigured"])
    ELSE [@ EXCEPT !.pc = "products", !.kind = kind, !.remote = remote,
                   !.request = IF kind = "api" THEN request ELSE @]]

Start(r) ==
  /\ run[r].pc = "idle"
  /\ \A q \in Runs : q < r => run[q].pc = "done"
  /\ \E kind \in Kinds, request \in Requests, configured \in BOOLEAN,
        remote \in Remotes :
       Begin(r, kind, request, configured, remote)
  /\ UNCHANGED <<store, inventoryKeyed, clock, hooks, view, stateFile>>

\* the same against a shop that never ends its listings
StartCyclic(r) ==
  /\ run[r].pc = "idle"
  /\ \A q \in Runs : q < r => run[q].pc = "done"
  /\ \E c \in CyclicCases, request \in Requests :
       Begin(r, c.kind, request, TRUE, c.remote)
  /\ UNCHANGED <<store, inventoryKeyed, clock, hooks, view, stateFile>>

\* The worker keeps no array of the product nodes it reads; what the model
\* records of them is each node once, in the order of its first reading.
RECURSIVE SeenNodes(_, _)
SeenNodes(seen, edges) ==
  IF edges = <<>> THEN seen
  ELSE SeenNodes(IF \E i \in 1..Len(seen) : seen[i] = Head(edges) THEN seen
                 ELSE Append(seen, Head(edges)),
                 Tail(edges))

\* cursor = edges[edges.length - 1].cursor : the page read, which a shop
\* that never ends its listing follows with its first page again
NextCursor(remote, page) ==
  IF remote.cyclic THEN page % Len(remote.catalog) ELSE page

\* one pass of  while (true) { resp = await shopifyGraphQL(...) ... }
ProductsPage(r) ==
  /\ run[r].pc = "products"
  /\ \E ok \in BOOLEAN :
       LET rec == run[r]
           page == rec.cursor + 1
           edges == rec.remote.catalog[page]
           more == rec.remote.cyclic \/ page < Len(rec.remote.catalog)
           got == [rec EXCEPT !.products = IF rec.kind = "api" THEN @ \o edges
                                            ELSE SeenNodes(@, edges),
                              !.cursor = NextCursor(rec.remote, page),
                              !.hasNextPage = more]
       IN run' = [run EXCEPT ![r] =
            IF ~ok THEN ProductsFailed(rec)
            ELSE IF rec.kind = "worker"
            THEN LET rows == ProductRows(edges)
                 IN IF rows = <<>> THEN AfterProducts(got)
                    ELSE [got EXCEPT !.pc = "upsertProduct", !.todo = rows]
            ELSE IF more /\ ~(Len(got.products) > ProductCap) THEN got
            ELSE LET rows == ProductRows(got.products)
                 IN IF rows = <<>> THEN AfterProducts(got)
                    ELSE [got EXCEPT !.pc = "upsertProduct", !.todo = rows]]
  /\ UNCHANGED <<store, inventoryKeyed, clock, hooks, view, stateFile>>

\* await client.query(`INSERT INTO products ...`) for the next variant
UpsertProduct(r) ==
  /\ run[r].pc = "upsertProduct"
  /\ LET rec == run[r]
         row == Head(rec.todo)
         rest == [rec EXCEPT !.todo = Tail(@), !.total = @ + 1,
                             !.wrote = @ \cup {"products"}]
     IN /\ products' = IF rec.kind = "api" /\ rec.edition # "part_004"
                       THEN UpsertProductRow(products, row)
                       ELSE UpsertProductRowWorker(products, row)
        /\ run' = [run EXCEPT ![r] =
             IF rest.todo = <<>> THEN AfterProducts(rest) ELSE rest]
  /\ UNCHANGED <<locations, inventory_levels, lastLevel, orders_lineitems, metrics_daily,
                 inventoryKeyed, clock, hooks, view, stateFile>>

\* the locations block of the handler: the request and one upsert per
\* location, any failure caught and logged
Locations(r) ==
  /\ run[r].pc = "locations"
  /\ \E ok \in BOOLEAN :
       /\ locations' = IF ok THEN UpsertLocations(locations, LocationsPayload)
                       ELSE locations
       /\ run' = [run EXCEPT ![r] =
            [@ EXCEPT !.pc = "inventory",
                      !.wrote = IF ok THEN @ \cup {"locations"} ELSE @,
                      !.fetchFailed = IF ok THEN @ ELSE @ \cup {"locations"}]]
  /\ UNCHANGED <<products, inventory_levels, lastLevel, orders_lineitems, metrics_daily,
                 inventoryKeyed, clock, hooks, view, stateFile>>

\* where the handler goes once the inventory pages are read: the api
\* builds the map next, the worker has built it and stores the levels
AfterInventoryPages(rec) ==
  IF rec.kind = "api" THEN [rec EXCEPT !.pc = "buildMap"]
  ELSE LET rows == InventoryRows(rec.invLevels, rec.invItemToSku)
       IN IF rows = <<>> THEN AfterInventory(rec)
          ELSE [rec EXCEPT !.pc = "upsertInventory", !.todo = rows]

InvCap(rec) ==
  IF rec.kind = "worker" THEN InvPageCapWorker
  ELSE IF rec.edition = "part_002" THEN InvPageCapPart
  ELSE InvPageCap

\* Link header of page k of n: rel="next" names page k + 1 unless k is the last
NextLink(k, n) == IF k < n THEN Some(k + 1) ELSE Null

\* the same for a shop whose last page names the first as its next
RemoteLink(remote, k, n) ==
  IF remote.cyclic THEN Some((k % n) + 1) ELSE NextLink(k, n)

\* the absolute URL of page k of a listing, the page_info of each page being
\* a token of its own
PageUrls == <<"page_info=1", "page_info=2", "page_info=3">>

PageUrl(k) == <<PageUrls[k]>>

RelNext == "rel=\"next\""

RelPrevious == "rel=\"previous\""

\* the entries of the Link header of page k of n: the page before, if any,
\* then the page after, if any
LinkEntries(remote, k, n) ==
  (IF k > 1 THEN << [url |-> PageUrl(k - 1), rel |-> RelPrevious] >> ELSE <<>>)
  \o (IF IsNull(RemoteLink(remote, k, n)) THEN <<>>
      ELSE << [url |-> PageUrl(Val(RemoteLink(remote, k, n))), rel |-> RelNext] >>)

\* the header as the shop writes it: <url>; rel="...", entries separated by
\* a comma and a space; no header when there is no entry
RECURSIVE RenderLink(_)
RenderLink(entries) ==
  IF entries = <<>> THEN <<>>
  ELSE <<"<">> \o Head(entries).url \o <<">", ";", Space, Head(entries).rel>>
       \o (IF Tail(entries) = <<>> THEN <<>> ELSE <<",", Space>>)
       \o RenderLink(Tail(entries))

LinkHeader(remote, k, n) == RenderLink(LinkEntries(remote, k, n))

\* str.split(sep)
RECURSIVE Split(_, _)
Split(str, sep) ==
  IF \A i \in 1..Len(str) : str[i] # sep THEN <<str>>
  ELSE LET i == CHOOSE j \in 1..Len(str) :
                  str[j] = sep /\ \A h \in 1..(j - 1) : str[h] # sep
       IN <<SubSeq(str, 1, i - 1)>> \o Split(SubSeq(str, i + 1, Len(str)), sep)

\* urlPart.replace(/^<|>$/g, '')
StripAngles(str) ==
  LET a == IF str # <<>> /\ Head(str) = "<" THEN Tail(str) ELSE str
  IN IF a # <<>> /\ a[Len(a)] = ">" THEN SubSeq(a, 1, Len(a) - 1) ELSE a

\* the loop of parseLinkHeader over the comma-separated parts
RECURSIVE NextOfParts(_)
NextOfParts(parts) ==
  IF parts = <<>> THEN Null
  ELSE LET split == Split(Head(parts), ";")
           sections == [i \in 1..Len(split) |-> Trim(split[i])]
       IN IF Len(sections) >= 2 /\ \E i \in 1..Len(sections[2]) : sections[2][i] = RelNext
          THEN StripAngles(sections[1])
          ELSE NextOfParts(Tail(parts))

\* parseLinkHeader(linkHeader): the URL of the first part whose second
\* section contains rel="next", null when there is none or no header
parseLinkHeader(linkHeader) ==
  IF linkHeader = <<>> THEN Null ELSE NextOfParts(Split(linkHeader, ","))

\* whether a string is the URL of a page of a listing of n pages, and which
IsPageUrl(url, n) == \E k \in 1..n : url = PageUrl(k)

PageOf(url, n) == CHOOSE k \in 1..n : url = PageUrl(k)

\* the initial inventory_levels.json request; a failure is caught by the
\* handler's try block and propagates to main()'s catch in the worker.
\* part_002 keeps the Link header itself as the address of the next request,
\* the other editions the URL that parseLinkHeader finds in it.
InventoryFirst(r) ==
  /\ run[r].pc = "inventory"
  /\ run[r].edition # "part_004"
  /\ \E ok \in BOOLEAN :
       LET rec == run[r]
           n == Len(rec.remote.levels)
           link == LinkHeader(rec.remote, 1, n)
           got == [rec EXCEPT !.invLevels = @ \o rec.remote.levels[1],
                              !.nextUrl = IF rec.edition = "part_002" THEN link
                                          ELSE parseLinkHeader(link),
                              !.pages = 0]
           bad == [rec EXCEPT !.fetchFailed = @ \cup {"inventory"}]
       IN run' = [run EXCEPT ![r] =
            IF ~ok THEN (IF rec.kind = "api" THEN [bad EXCEPT !.pc = "buildMap"]
                         ELSE Failed(bad))
            ELSE IF rec.kind = "worker" THEN [got EXCEPT !.pc = "buildMap"]
            ELSE IF ~IsNull(got.nextUrl) /\ got.pages < InvCap(got)
            THEN [got EXCEPT !.pc = "inventoryNext"]
            ELSE AfterInventoryPages(got)]
  /\ UNCHANGED <<store, inventoryKeyed, clock, hooks, view, stateFile>>

\* one pass of  while (nextUrl && pages < cap) { ... }; a request to an
\* address that is no URL is rejected like one the shop fails (fetchFailed
\* tells the two apart)
InventoryNext(r) ==
  /\ run[r].pc = "inventoryNext"
  /\ \E ok \in BOOLEAN :
       LET rec == run[r]
           n == Len(rec.remote.levels)
           reached == IsPageUrl(rec.nextUrl, n)
           k == PageOf(rec.nextUrl, n)
           got == [rec EXCEPT !.invLevels = @ \o rec.remote.levels[k],
                              !.nextUrl = parseLinkHeader(LinkHeader(rec.remote, k, n)),
                              !.pages = @ + 1]
           bad == [rec EXCEPT !.pages = @ + 1,
                              !.fetchFailed = @ \cup (IF reached THEN {"inventory"}
                                                      ELSE {"address"})]
       IN run' = [run EXCEPT ![r] =
            IF ~ok \/ ~reached THEN (IF rec.kind = "api" THEN AfterInventoryPages(bad)
                         ELSE Failed(bad))
            ELSE IF ~IsNull(got.nextUrl) /\ got.pages < InvCap(got) THEN got
            ELSE AfterInventoryPages(got)]
  /\ UNCHANGED <<store, inventoryKeyed, clock, hooks, view, stateFile>>

\* SELECT sku, variant_id FROM products WHERE variant_id IS NOT NULL and the
\* loop that fills invItemToSku; part_002 selects inventory_item_id and goes
\* through the levels one by one
BuildMap(r) ==
  /\ run[r].pc = "buildMap"
  /\ LET rec == run[r]
         map == IF rec.edition = "part_002"
                THEN BuildItemMap(SelectInventoryItemIds(products), EmptyMap)
                ELSE BuildInvItemToSku(SelectVariantIds(products), EmptyMap)
         got == [rec EXCEPT !.invItemToSku = map]
     IN run' = [run EXCEPT ![r] =
          IF rec.kind = "worker" /\ ~IsNull(rec.nextUrl) /\ rec.pages < InvCap(rec)
          THEN [got EXCEPT !.pc = "inventoryNext"]
          ELSE IF rec.edition = "part_002"
          THEN (IF got.invLevels = <<>> THEN AfterInventory(got)
                ELSE [got EXCEPT !.pc = "pickLevel", !.todo = got.invLevels])
          ELSE LET rows == InventoryRows(got.invLevels, map)
               IN IF rows = <<>> THEN AfterInventory(got)
                  ELSE [got EXCEPT !.pc = "upsertInventory", !.todo = rows]]
  /\ UNCHANGED <<store, inventoryKeyed, clock, hooks, view, stateFile>>

\* await client.query(`INSERT INTO inventory_levels ... ON CONFLICT (sku,
\* location_id) ...`) for the next level.  Postgres rejects the statement
\* when no unique index matches the conflict target; nothing catches that
\* before the handler's outer catch.
UpsertInventory(r) ==
  /\ run[r].pc = "upsertInventory"
  /\ LET rec == run[r]
         row == Head(rec.todo)
         rest == [rec EXCEPT !.todo = Tail(@), !.wrote = @ \cup {"inventory"}]
     IN /\ lastLevel' = Some(row)
        /\ IF inventoryKeyed
           THEN /\ inventory_levels' = UpsertInventoryRow(inventory_levels, row)
                /\ run' = [run EXCEPT ![r] =
                     IF rest.todo = <<>> THEN AfterInventory(rest) ELSE rest]
           ELSE /\ inventory_levels' = inventory_levels
                /\ run' = [run EXCEPT ![r] = Failed(rec)]
  /\ UNCHANGED <<products, locations, orders_lineitems, metrics_daily,
                 inventoryKeyed, clock, hooks, view, stateFile>>

\* part_002, the head of  for (const item of invLevels) : the lookup in
\* invItemToSku and, when it finds nothing and the level carries a SKU,
\* SELECT sku FROM products WHERE sku=$1 LIMIT 1
PickLevel(r) ==
  /\ run[r].pc = "pickLevel"
  /\ LET rec == run[r]
         item == Head(rec.todo)
         sku == MappedSku(item, rec.invItemToSku)
         pcheck == SelectSeq(products, LAMBDA p : p.sku = SkuFromRow(item))
     IN run' = [run EXCEPT ![r] =
          IF sku = Null /\ SkuFromRow(item) # <<>> /\ Len(pcheck) = 1
          THEN [rec EXCEPT !.sku = Null, !.pc = "backfill"]
          ELSE [rec EXCEPT !.sku = sku, !.pc = "insertLevel"]]
  /\ UNCHANGED <<store, inventoryKeyed, clock, hooks, view, stateFile>>

\* part_002: UPDATE products SET inventory_item_id ...; invItemToSku[invItemId]
\* = skuFromRow; sku = skuFromRow.  A null invItemId makes the key "null",
\* which no lookup reads.
Backfill(r) ==
  /\ run[r].pc = "backfill"
  /\ LET rec == run[r]
         item == Head(rec.todo)
         id == item.inventory_item_id
         map == rec.invItemToSku
     IN /\ products' = BackfillProduct(products, id, SkuFromRow(item))
        /\ run' = [run EXCEPT ![r] =
             [rec EXCEPT !.sku = SkuFromRow(item), !.pc = "insertLevel",
                         !.wrote = @ \cup {"products"},
                         !.invItemToSku =
                            IF IsNull(id) THEN map
                            ELSE [k \in DOMAIN map \cup {Val(id)} |->
                                    IF k = Val(id) THEN SkuFromRow(item) ELSE map[k]]]]
  /\ UNCHANGED <<locations, inventory_levels, lastLevel, orders_lineitems, metrics_daily,
                 inventoryKeyed, clock, hooks, view, stateFile>>

\* part_002: try { INSERT INTO inventory_levels (sku, location_id, available,
\* timestamp, inventory_item_id) ... ON CONFLICT (sku, location_id) DO UPDATE }
\* catch (e) { log }: a rejected statement is logged and the loop goes on
InsertLevel(r) ==
  /\ run[r].pc = "insertLevel"
  /\ LET rec == run[r]
         row == LevelRow(Head(rec.todo), rec.sku)
         rest == [rec EXCEPT !.todo = Tail(@), !.sku = Null,
                             !.wrote = IF inventoryKeyed THEN @ \cup {"inventory"} ELSE @]
     IN /\ lastLevel' = Some(row)
        /\ inventory_levels' = IF inventoryKeyed
                               THEN UpsertInventoryRow(inventory_levels, row)
                               ELSE inventory_levels
        /\ run' = [run EXCEPT ![r] =
             IF rest.todo = <<>> THEN AfterInventory(rest)
             ELSE [rest EXCEPT !.pc = "pickLevel"]]
  /\ UNCHANGED <<products, locations, orders_lineitems, metrics_daily,
                 inventoryKeyed, clock, hooks, view, stateFile>>

\* part_004: SELECT sku, variant_id FROM products ... and the loop that fills
\* invItemToSku, before the inventory levels are requested
BuildMapFirst(r) ==
  /\ run[r].pc = "inventory"
  /\ run[r].edition = "part_004"
  /\ run' = [run EXCEPT ![r] =
       [@ EXCEPT !.invItemToSku = BuildInvItemToSku(SelectVariantIds(products), EmptyMap),
                 !.pc = "inventoryAgain"]]
  /\ UNCHANGED <<store, inventoryKeyed, clock, hooks, view, stateFile>>

\* part_004, one pass of  while (true) { invPage += 1; resp = await
\* shopifyREST(op, 'inventory_levels.json', { limit: 250 }); ... }: every
\* pass asks for the first page; a failure reaches the handler's catch
InventoryAgain(r) ==
  /\ run[r].pc = "inventoryAgain"
  /\ \E ok \in BOOLEAN :
       LET rec == run[r]
           items == rec.remote.levels[1]
           got == [rec EXCEPT !.invLevels = @ \o items, !.pages = @ + 1]
           bad == [rec EXCEPT !.pages = @ + 1, !.fetchFailed = @ \cup {"inventory"}]
           rows == InventoryRows(got.invLevels, got.invItemToSku)
       IN run' = [run EXCEPT ![r] =
            IF ~ok THEN Failed(bad)
            ELSE IF ~(Len(items) < InvLimit \/ got.pages > InvPageMax) THEN got
            ELSE IF rows = <<>> THEN AfterInventory(got)
            ELSE [got EXCEPT !.pc = "upsertInventory", !.todo = rows]]
  /\ UNCHANGED <<store, inventoryKeyed, clock, hooks, view, stateFile>>

\* part_004, one pass of  while (true) { resp = await shopifyGraphQL(op,
\* ordersQuery, variables); ... }: the pages of the GraphQL listing by
\* cursor; a failure reaches the handler's catch
OrdersQuery(r) ==
  /\ run[r].pc = "orders"
  /\ run[r].edition = "part_004"
  /\ \E ok \in BOOLEAN :
       LET rec == run[r]
           page == rec.pageCount + 1
           edges == rec.remote.orders[page]
           more == page < Len(rec.remote.orders)
           got == [rec EXCEPT
                     !.orders = @ \o [i \in 1..Len(edges) |-> OrderNode(edges[i])],
                     !.pageCount = page]
           bad == [rec EXCEPT !.fetchFailed = @ \cup {"orders"}]
           rows == GraphRows(got.orders)
       IN run' = [run EXCEPT ![r] =
            IF ~ok THEN Failed(bad)
            ELSE IF more /\ ~(Len(got.orders) > OrderCountCapGraph) THEN got
            ELSE IF rows = <<>> THEN AfterOrders(got)
            ELSE [got EXCEPT !.pc = "insertLineItem", !.todo = rows]]
  /\ UNCHANGED <<store, inventoryKeyed, clock, hooks, view, stateFile>>

OrderCap(rec) == IF rec.kind = "api" THEN OrderPageCap ELSE OrderPageCapWorker

OrderCountLimit(rec) == IF rec.kind = "api" THEN OrderCountCap ELSE OrderCountCapWorker

\* where the handler goes once the order pages are read
AfterOrderPages(rec) ==
  LET rows == OrderRows(rec.orders, rec.kind = "worker")
  IN IF rows = <<>> THEN AfterOrders(rec)
     ELSE [rec EXCEPT !.pc = "insertLineItem", !.todo = rows]

\* the initial orders.json request; a failure is caught by the handler's
\* try block and propagates to main()'s catch in the worker
OrdersFirst(r) ==
  /\ run[r].pc = "orders"
  /\ run[r].edition # "part_004"
  /\ \E ok \in BOOLEAN :
       LET rec == run[r]
           n == Len(rec.remote.orders)
           got == [rec EXCEPT !.orders = @ \o rec.remote.orders[1],
                              !.next = parseLinkHeader(LinkHeader(rec.remote, 1, n)),
                              !.pageCount = 0]
           bad == [rec EXCEPT !.fetchFailed = @ \cup {"orders"}]
       IN run' = [run EXCEPT ![r] =
            IF ~ok THEN (IF rec.kind = "api" THEN AfterOrderPages(bad) ELSE Failed(bad))
            ELSE IF /\ ~IsNull(got.next)
                    /\ got.pageCount < OrderCap(got)
                    /\ Len(got.orders) < OrderCountLimit(got)
            THEN [got EXCEPT !.pc = "ordersNext"]
            ELSE AfterOrderPages(got)]
  /\ UNCHANGED <<store, inventoryKeyed, clock, hooks, view, stateFile>>

\* one pass of  while (next && pageCount < cap && orders.length < limit) { ... }
OrdersNext(r) ==
  /\ run[r].pc = "ordersNext"
  /\ \E ok \in BOOLEAN :
       LET rec == run[r]
           n == Len(rec.remote.orders)
           k == PageOf(rec.next, n)
           got == [rec EXCEPT !.orders = @ \o rec.remote.orders[k],
                              !.next = parseLinkHeader(LinkHeader(rec.remote, k, n)),
                              !.pageCount = @ + 1]
           bad == [rec EXCEPT !.pageCount = @ + 1, !.fetchFailed = @ \cup {"orders"}]
       IN run' = [run EXCEPT ![r] =
            IF ~ok THEN (IF rec.kind = "api" THEN AfterOrderPages(bad) ELSE Failed(bad))
            ELSE IF /\ ~IsNull(got.next)
                    /\ got.pageCount < OrderCap(got)
                    /\ Len(got.orders) < OrderCountLimit(got)
            THEN got
            ELSE AfterOrderPages(got)]
  /\ UNCHANGED <<store, inventoryKeyed, clock, hooks, view, stateFile>>

\* await client.query(`INSERT INTO orders_lineitems ... ON CONFLICT DO NOTHING`)
\* for the next line item
InsertLineItem(r) ==
  /\ run[r].pc = "insertLineItem"
  /\ LET rec == run[r]
         row == Head(rec.todo)
         rest == [rec EXCEPT !.todo = Tail(@), !.wrote = @ \cup {"orders"}]
     IN /\ orders_lineitems' = InsertLineItemRow(orders_lineitems, row)
        /\ run' = [run EXCEPT ![r] =
             IF rest.todo = <<>> THEN AfterOrders(rest) ELSE rest]
  /\ UNCHANGED <<products, locations, inventory_levels, lastLevel, metrics_daily,
                 inventoryKeyed, clock, hooks, view, stateFile>>

\* SELECT sku FROM products;  today = dayjs().format('YYYY-MM-DD')
SelectSkus(r) ==
  /\ run[r].pc = "skus"
  /\ LET skus == [i \in 1..Len(products) |-> products[i].sku]
     IN run' = [run EXCEPT ![r] =
          [@ EXCEPT !.skus = skus, !.today = clock,
                    !.pc = IF skus = <<>> THEN "complete" ELSE "sales"]]
  /\ UNCHANGED <<store, inventoryKeyed, clock, hooks, view, stateFile>>

\* the sales query of the SKU at the head of the loop
SelectSales(r) ==
  /\ run[r].pc = "sales"
  /\ run' = [run EXCEPT ![r] =
       [@ EXCEPT !.daily = SelectDailySales(orders_lineitems, Head(run[r].skus), clock),
                 !.seenOrders = Len(orders_lineitems),
                 !.pc = "stock"]]
  /\ UNCHANGED <<store, inventoryKeyed, clock, hooks, view, stateFile>>

\* days, sum30, sum7 and todaySales from the sales rows, then the stock query
SelectStock(r) ==
  /\ run[r].pc = "stock"
  /\ LET rec == run[r]
         days == DaysOf(rec.daily, clock)
         sum30 == SumSeq(days)
         stock == CurrentStock(SelectStockTotal(inventory_levels, Head(rec.skus)))
     IN run' = [run EXCEPT ![r] =
          [rec EXCEPT !.sum30 = sum30, !.sum7 = SumSeq(LastDays(days)),
                      !.todaySales = TodaySales(rec.daily, rec.today),
                      !.current_stock = stock,
                      !.days_of_cover = DaysOfCover(stock, sum30),
                      !.windowNow = clock, !.seenStock = inventory_levels,
                      !.pc = "metric"]]
  /\ UNCHANGED <<store, inventoryKeyed, clock, hooks, view, stateFile>>

\* the next pass of  for (const sku of skus)
NextSku(rec) ==
  LET left == Tail(rec.skus)
  IN [rec EXCEPT !.skus = left, !.daily = EmptyMap, !.sum30 = 0, !.sum7 = 0,
                 !.todaySales = 0, !.current_stock = 0, !.days_of_cover = Null,
                 !.seenOrders = 0, !.windowNow = 0, !.seenStock = <<>>,
                 !.pc = IF left = <<>> THEN "complete" ELSE "sales"]

\* the row of  INSERT INTO metrics_daily (sku, date, daily_sales, rolling7,
\* rolling30, current_stock, days_of_cover)
MetricRow(rec) ==
  [sku |-> Head(rec.skus), date |-> rec.today, daily_sales |-> rec.todaySales,
   rolling7 |-> [num |-> rec.sum7, den |-> Avg7Div],
   rolling30 |-> [num |-> rec.sum30, den |-> Avg30Div],
   current_stock |-> rec.current_stock, days_of_cover |-> rec.days_of_cover]

\* await client.query(`INSERT INTO metrics_daily ... ON CONFLICT (sku,date) ...`)
UpsertMetric(r) ==
  /\ run[r].pc = "metric"
  /\ LET rec == run[r]
         row == MetricRow(rec)
         did == [rec EXCEPT !.wrote = @ \cup {"metrics"},
                            !.computed = Append(@,
                               [row |-> row, seenOrders |-> rec.seenOrders,
                                windowNow |-> rec.windowNow,
                                seenStock |-> rec.seenStock])]
     IN /\ metrics_daily' = UpsertMetricRow(metrics_daily, row)
        /\ run' = [run EXCEPT ![r] =
             IF ShouldAlert(rec.days_of_cover) THEN [did EXCEPT !.pc = "alert"]
             ELSE NextSku(did)]
  /\ UNCHANGED <<products, locations, inventory_levels, lastLevel, orders_lineitems,
                 inventoryKeyed, clock, hooks, view, stateFile>>

\* whether axios.post(SLACK_WEBHOOK, ...) resolves
Deliveries(remote) == IF remote.slackFails THEN BOOLEAN ELSE {TRUE}

\* postSlack without its try/catch: a rejected axios.post reaches the caller
PostSlack_Throws(rec, delivered, msg, cont) ==
  IF delivered THEN cont ELSE Failed([rec EXCEPT !.undelivered = @ \cup {msg}])

\* postSlack: try { await axios.post(SLACK_WEBHOOK, ...) } catch (e) { log };
\* rec is the caller before the call, cont what the caller goes on to
PostSlack(rec, delivered, msg, cont) ==
  IF delivered THEN cont ELSE [cont EXCEPT !.undelivered = @ \cup {msg}]

\* await postSlack(`:warning: RESTOCK ALERT ...`)
Alert(r) ==
  /\ run[r].pc = "alert"
  /\ \E delivered \in Deliveries(run[r].remote) :
       LET rec == run[r]
           msg == [sku |-> Head(rec.skus), current_stock |-> rec.current_stock,
                   sum30 |-> rec.sum30]
           posted == [rec EXCEPT !.alerts = @ \cup {msg}]
       IN run' = [run EXCEPT ![r] =
            PostSlack(posted, delivered, Some(Head(rec.skus)), NextSku(posted))]
  /\ UNCHANGED <<store, inventoryKeyed, clock, hooks, view, stateFile>>

\* saveState(s): try { await fs.writeFile(STATE_FILE, ...) } catch (e) { warn };
\* the file keeps what it held when the write is rejected
saveState(file, s, written) == IF written THEN s ELSE file

\* handler: postSlack(`ETL completed ...`); res.status(200).send(...)
\* main(): state.last_run = new Date().toISOString(); saveState(state);
\* postSlack(`ETL worker completed ...`)
Complete(r) ==
  /\ run[r].pc = "complete"
  /\ \E delivered \in Deliveries(run[r].remote), written \in BOOLEAN :
       /\ run' = [run EXCEPT ![r] =
            PostSlack(run[r], delivered, Null,
                      Returned([run[r] EXCEPT
                         !.outcome = "completed",
                         !.status = IF run[r].kind = "api" THEN 200 ELSE 0]))]
       /\ stateFile' = IF run[r].kind = "worker"
                       THEN saveState(stateFile, Some(clock), written)
                       ELSE stateFile
  /\ UNCHANGED <<store, inventoryKeyed, clock, hooks, view>>

----------------------------------------------------------------------------
(* The webhook receiver *)

\* for (const li of order.line_items) await client.query(`INSERT INTO
\* orders_lineitems ... ON CONFLICT DO NOTHING`)
RECURSIVE InsertLineItems(_, _)
InsertLineItems(tbl, rows) ==
  IF rows = <<>> THEN tbl
  ELSE InsertLineItems(InsertLineItemRow(tbl, Head(rows)), Tail(rows))

\* handler of webhooks.js, topic orders/create or orders/updated: a body
\* whose HMAC does not verify is answered 401 before the store is touched
OrderWebhook ==
  /\ hooks < MaxHooks
  /\ \E order \in OrderHooks, hmacOk \in BOOLEAN :
       IF hmacOk
       THEN /\ orders_lineitems' =
                 InsertLineItems(orders_lineitems,
                                 LineItemRows(order, order.line_items, TRUE))
            /\ hooks' = hooks + 1
       ELSE UNCHANGED <<orders_lineitems, hooks, stateFile>>
  /\ UNCHANGED <<products, locations, inventory_levels, lastLevel, metrics_daily,
                 inventoryKeyed, clock, run, view, stateFile>>

\* the row of the inventory_levels/update branch
HookInventoryRow(inv) ==
  [sku |-> inv.sku, location_id |-> OrElse(inv.location_id, "unknown"),
   available |-> OrElse(inv.available, 0)]

\* handler of webhooks.js, topic inventory_levels/update; the statement
\* fails, and the handler answers 500, when no unique index matches
InventoryWebhook ==
  /\ hooks < MaxHooks
  /\ \E inv \in InventoryHooks, hmacOk \in BOOLEAN :
       IF ~hmacOk THEN UNCHANGED <<inventory_levels, lastLevel, hooks, stateFile>>
       ELSE /\ lastLevel' = Some(HookInventoryRow(inv))
            /\ inventory_levels' =
                 IF inventoryKeyed
                 THEN UpsertInventoryRow(inventory_levels, HookInventoryRow(inv))
                 ELSE inventory_levels
            /\ hooks' = hooks + 1
  /\ UNCHANGED <<products, locations, orders_lineitems, metrics_daily,
                 inventoryKeyed, clock, run, view, stateFile>>

\* midnight
Tick ==
  /\ clock < MaxDay
  /\ clock' = clock + 1
  /\ UNCHANGED <<store, inventoryKeyed, hooks, run, view, stateFile>>

----------------------------------------------------------------------------
(* The read endpoint: the trend of one row *)

\* src/pages/api/skus-live.js and the edition of it in src/unnamed/part_005
Files == {"skus-live.js", "part_005"}

\* rows with a previous-month quantity: mtd and prev_mtd are sums of the
\* INTEGER column quantity
QuantityRows ==
  [pc : {"request"}, file : Files, mtd : {Some(q) : q \in 0..MaxQty},
   prev_mtd : {Some(q) : q \in 1..MaxQty}, series : {[i \in 1..Last7 |-> 0]},
   rolling30 : {Some([num |-> 0, den |-> Avg30Div])}, trend : {"steady"}]

\* the seven daily_sales of the sparkline: k days without sales, then d a day
SeriesCases ==
  { [i \in 1..Last7 |-> IF i <= k THEN 0 ELSE d] : k \in 0..Last7, d \in 0..MaxDaily }

\* rolling30 as the sync stores it, sum30 / 30, or NULL
Rolling30Cases ==
  {Null} \cup {Some([num |-> n, den |-> Avg30Div]) : n \in 0..MaxSum30}

\* rows without a previous-month quantity: COALESCE(prev.prev_qty, 0)
FallbackRows ==
  [pc : {"request"}, file : Files, mtd : {Some(0), Some(MaxDaily)},
   prev_mtd : {Some(0)}, series : SeriesCases, rolling30 : Rolling30Cases,
   trend : {"steady"}]

TrendInit ==
  /\ products = <<>>
  /\ locations = <<>>
  /\ inventory_levels = <<>>
  /\ orders_lineitems = <<>>
  /\ metrics_daily = <<>>
  /\ inventoryKeyed \in BOOLEAN
  /\ clock = 0
  /\ hooks = 0
  /\ lastLevel = Null
  /\ run = [r \in Runs |-> IdleRun]
  /\ view \in QuantityRows \cup FallbackRows
  /\ stateFile = Null

\* let trend = 'steady'; if (prev > 0) {...} else {...}; skus.push({..., trend})
Classify ==
  /\ view.pc = "request"
  /\ view' = [view EXCEPT
       !.trend = Trend(view.file, view.mtd, view.prev_mtd, view.series, view.rolling30),
       !.pc = "answered"]
  /\ UNCHANGED <<store, inventoryKeyed, clock, hooks, run, stateFile>>

TrendNext == Classify

TrendSpec == TrendInit /\ [][TrendNext]_vars

----------------------------------------------------------------------------
(* The read endpoint: the month-to-date and previous-month quantities *)

\* the days of January to April of a common year
MonthLengths == <<31, 28, 31, 30>>

\* the number of the first day of month m, days counted from 1 January = 0
MonthStartDay(m) == SumSeq(SubSeq(MonthLengths, 1, m - 1))

MonthOfDay(day) ==
  CHOOSE m \in 1..Len(MonthLengths) :
    MonthStartDay(m) <= day /\ day < MonthStartDay(m) + MonthLengths[m]

\* a date as a timestamp: its midnight.  created_at is a TIMESTAMP; the
\* model counts TicksPerDay instants a day, the first being midnight.
AtMidnight(day) == day * TicksPerDay

\* date_trunc('month', CURRENT_DATE)
DateTruncMonth(today) == MonthStartDay(MonthOfDay(today))

\* date_trunc('month', CURRENT_DATE) - INTERVAL '1 month'
PrevMonthStart(today) == MonthStartDay(MonthOfDay(today) - 1)

\* date_part('day', CURRENT_DATE)::int
DatePartDay(today) == today - DateTruncMonth(today) + 1

\* WHERE created_at >= date_trunc('month', CURRENT_DATE)
\*   AND created_at < CURRENT_DATE + INTERVAL '1 day'
InMonthToDate(created_at, today) ==
  /\ created_at >= AtMidnight(DateTruncMonth(today))
  /\ created_at < AtMidnight(today + 1)

\* WHERE ol.created_at >= (date_trunc('month', CURRENT_DATE) - INTERVAL '1 month')
\*   AND ol.created_at <= (date_trunc('month', CURRENT_DATE) - INTERVAL '1 month')
\*                        + ((date_part('day', CURRENT_DATE)::int - 1) * INTERVAL '1 day')
InPrevMonthToDate(created_at, today) ==
  /\ created_at >= AtMidnight(PrevMonthStart(today))
  /\ created_at <= AtMidnight(PrevMonthStart(today) + (DatePartDay(today) - 1))

\* COALESCE(SUM(quantity), 0) over the rows of a SKU that the window takes
SumQuantity(rows, today, InWindow(_, _)) ==
  SumSeq([i \in 1..Len(rows) |->
            IF InWindow(rows[i].created_at, today) THEN rows[i].quantity ELSE 0])

\* the order rows of one SKU that a request finds: none, one at any instant
\* of the four months, or that one and one more later today
OrderRowCases(today) ==
  {<<>>}
  \cup { <<[quantity |-> 3, created_at |-> t]>> :
           t \in 0..(AtMidnight(MonthStartDay(Len(MonthLengths) + 1)) - 1) }
  \cup { <<[quantity |-> 3, created_at |-> t],
           [quantity |-> 1, created_at |-> AtMidnight(today) + (TicksPerDay - 1)]>> :
           t \in 0..(AtMidnight(MonthStartDay(Len(MonthLengths) + 1)) - 1) }

\* requests on any day of February, March or April
MonthCases ==
  UNION { [pc : {"request"}, file : Files, today : {today},
           rows : OrderRowCases(today), mtd : {Null}, prev_mtd : {Null}] :
          today \in MonthStartDay(2)..(MonthStartDay(Len(MonthLengths) + 1) - 1) }

MonthInit ==
  /\ products = <<>>
  /\ locations = <<>>
  /\ inventory_levels = <<>>
  /\ orders_lineitems = <<>>
  /\ metrics_daily = <<>>
  /\ inventoryKeyed \in BOOLEAN
  /\ clock = 0
  /\ hooks = 0
  /\ lastLevel = Null
  /\ run = [r \in Runs |-> IdleRun]
  /\ view \in MonthCases
  /\ stateFile = Null

\* the mtd and prev joins of the query of skus-live.js; part_005 has the
\* same two subqueries
SelectMonths ==
  /\ view.pc = "request"
  /\ view' = [view EXCEPT
       !.mtd = Some(SumQuantity(view.rows, view.today, InMonthToDate)),
       !.prev_mtd = Some(SumQuantity(view.rows, view.today, InPrevMonthToDate)),
       !.pc = "answered"]
  /\ UNCHANGED <<store, inventoryKeyed, clock, hooks, run, stateFile>>

MonthNext == SelectMonths

MonthSpec == MonthInit /\ [][MonthNext]_vars

----------------------------------------------------------------------------

Step(r) ==
  \/ Start(r)
  \/ ProductsPage(r)
  \/ UpsertProduct(r)
  \/ Locations(r)
  \/ InventoryFirst(r)
  \/ InventoryNext(r)
  \/ BuildMap(r)
  \/ UpsertInventory(r)
  \/ OrdersFirst(r)
  \/ OrdersNext(r)
  \/ InsertLineItem(r)
  \/ SelectSkus(r)
  \/ SelectSales(r)
  \/ SelectStock(r)
  \/ UpsertMetric(r)
  \/ Alert(r)
  \/ Complete(r)

Next ==
  \/ \E r \in Runs : Step(r)
  \/ OrderWebhook
  \/ InventoryWebhook
  \/ Tick

Spec == Init /\ [][Next]_vars

\* Two HTTP triggers arriving without regard to each other: nothing in the
\* handler keeps a second invocation from starting while the first runs.
\* a request to one of the editions of pages/api/run-etl.js
BeginEdition(r, edition, request, remote) ==
  run' = [run EXCEPT ![r] =
    IF ~Authorized(request)
    THEN Returned([@ EXCEPT !.status = 401, !.outcome = "unauthorized",
                            !.request = request, !.edition = edition])
    ELSE [@ EXCEPT !.pc = "products", !.remote = remote, !.request = request,
                   !.edition = edition]]

StartPart(r) ==
  /\ run[r].pc = "idle"
  /\ \A q \in Runs : q < r => run[q].pc = "done"
  /\ \E edition \in Editions, request \in Requests, remote \in PartRemotes :
       BeginEdition(r, edition, request, remote)
  /\ UNCHANGED <<store, inventoryKeyed, clock, hooks, view, stateFile>>

PartStep(r) ==
  \/ StartPart(r)
  \/ ProductsPage(r)
  \/ UpsertProduct(r)
  \/ Locations(r)
  \/ InventoryFirst(r)
  \/ InventoryNext(r)
  \/ BuildMap(r)
  \/ UpsertInventory(r)
  \/ PickLevel(r)
  \/ Backfill(r)
  \/ InsertLevel(r)
  \/ OrdersFirst(r)
  \/ OrdersNext(r)
  \/ InsertLineItem(r)
  \/ SelectSkus(r)
  \/ SelectSales(r)
  \/ SelectStock(r)
  \/ UpsertMetric(r)
  \/ Alert(r)
  \/ Complete(r)

PartNext == \E r \in Runs : PartStep(r)

PartSpec == Init /\ [][PartNext]_vars

\* The orders of the shops, as the bodies the shop posts to the webhook
\* endpoint when they are created or updated
ShopOrders ==
  { rm.orders[k][i] : <<rm, k, i>> \in
      { t \in Remotes \X (1..2) \X (1..2) :
          t[2] <= Len(t[1].orders) /\ t[3] <= Len(t[1].orders[t[2]]) } }

\* handler of webhooks.js, topic orders/create or orders/updated, for an
\* order that the sync fetches as well
ShopOrderWebhook ==
  /\ hooks < MaxHooks
  /\ \E order \in ShopOrders, hmacOk \in BOOLEAN :
       IF hmacOk
       THEN /\ orders_lineitems' =
                 InsertLineItems(orders_lineitems,
                                 LineItemRows(order, order.line_items, TRUE))
            /\ hooks' = hooks + 1
       ELSE UNCHANGED <<orders_lineitems, hooks>>
  /\ UNCHANGED <<products, locations, inventory_levels, lastLevel, metrics_daily,
                 inventoryKeyed, clock, run, view, stateFile>>

\* a request to the edition part_004 of pages/api/run-etl.js
StartGraph(r) ==
  /\ run[r].pc = "idle"
  /\ \A q \in Runs : q < r => run[q].pc = "done"
  /\ \E request \in Requests, remote \in Remotes :
       BeginEdition(r, "part_004", request, remote)
  /\ UNCHANGED <<store, inventoryKeyed, clock, hooks, view, stateFile>>

\* One invocation at a time of the edition part_004, with the webhook
\* receiver delivering the shop's orders in between
GraphStep(r) ==
  \/ StartGraph(r)
  \/ ProductsPage(r)
  \/ UpsertProduct(r)
  \/ Locations(r)
  \/ BuildMapFirst(r)
  \/ InventoryAgain(r)
  \/ UpsertInventory(r)
  \/ OrdersQuery(r)
  \/ InsertLineItem(r)
  \/ SelectSkus(r)
  \/ SelectSales(r)
  \/ SelectStock(r)
  \/ UpsertMetric(r)
  \/ Alert(r)
  \/ Complete(r)

GraphNext == (\E r \in Runs : GraphStep(r)) \/ ShopOrderWebhook

GraphSpec == Init /\ [][GraphNext]_vars

StartOverlap(r) ==
  /\ run[r].pc = "idle"
  /\ \E request \in Requests, remote \in Remotes :
       Begin(r, "api", request, TRUE, remote)
  /\ UNCHANGED <<store, inventoryKeyed, clock, hooks, view, stateFile>>

OverlapStep(r) ==
  \/ StartOverlap(r)
  \/ ProductsPage(r)
  \/ UpsertProduct(r)
  \/ Locations(r)
  \/ InventoryFirst(r)
  \/ InventoryNext(r)
  \/ BuildMap(r)
  \/ UpsertInventory(r)
  \/ OrdersFirst(r)
  \/ OrdersNext(r)
  \/ InsertLineItem(r)
  \/ SelectSkus(r)
  \/ SelectSales(r)
  \/ SelectStock(r)
  \/ UpsertMetric(r)
  \/ Alert(r)
  \/ Complete(r)

OverlapNext == \E r \in Runs : OverlapStep(r)

OverlapSpec == Init /\ [][OverlapNext]_vars

\* One HTTP trigger after another, the platform free to end an invocation
\* at any await (the function's time limit, a lost database connection), and
\* the day free to change between invocations.
StartAgain(r) ==
  /\ run[r].pc = "idle"
  /\ \A q \in Runs : q < r => run[q].pc = "done"
  /\ \E request \in Requests, remote \in Remotes :
       Begin(r, "api", request, TRUE, remote)
  /\ UNCHANGED <<store, inventoryKeyed, clock, hooks, view, stateFile>>

\* the invocation ends where it is: what it has written stays
CutOff(r) ==
  /\ run[r].pc \notin {"idle", "done"}
  /\ run' = [run EXCEPT ![r] = Returned([@ EXCEPT !.outcome = "cut"])]
  /\ UNCHANGED <<store, inventoryKeyed, clock, hooks, view, stateFile>>

\* midnight, no invocation being under way
Midnight ==
  /\ clock < MaxDay
  /\ \A r \in Runs : run[r].pc \in {"idle", "done"}
  /\ clock' = clock + 1
  /\ UNCHANGED <<store, inventoryKeyed, hooks, run, view, stateFile>>

AgainStep(r) ==
  \/ StartAgain(r)
  \/ CutOff(r)
  \/ ProductsPage(r)
  \/ UpsertProduct(r)
  \/ Locations(r)
  \/ InventoryFirst(r)
  \/ InventoryNext(r)
  \/ BuildMap(r)
  \/ UpsertInventory(r)
  \/ OrdersFirst(r)
  \/ OrdersNext(r)
  \/ InsertLineItem(r)
  \/ SelectSkus(r)
  \/ SelectSales(r)
  \/ SelectStock(r)
  \/ UpsertMetric(r)
  \/ Alert(r)
  \/ Complete(r)

AgainNext ==
  \/ \E r \in Runs : AgainStep(r)
  \/ Midnight

AgainSpec == Init /\ [][AgainNext]_vars

\* One HTTP trigger after another, each with any of the secrets a caller
\* may send.
StartRequest(r) ==
  /\ run[r].pc = "idle"
  /\ \A q \in Runs : q < r => run[q].pc = "done"
  /\ \E request \in AllRequests, remote \in Remotes :
       Begin(r, "api", request, TRUE, remote)
  /\ UNCHANGED <<store, inventoryKeyed, clock, hooks, view, stateFile>>

TriggerStep(r) ==
  \/ StartRequest(r)
  \/ ProductsPage(r)
  \/ UpsertProduct(r)
  \/ Locations(r)
  \/ InventoryFirst(r)
  \/ InventoryNext(r)
  \/ BuildMap(r)
  \/ UpsertInventory(r)
  \/ OrdersFirst(r)
  \/ OrdersNext(r)
  \/ InsertLineItem(r)
  \/ SelectSkus(r)
  \/ SelectSales(r)
  \/ SelectStock(r)
  \/ UpsertMetric(r)
  \/ Alert(r)
  \/ Complete(r)

TriggerNext == \E r \in Runs : TriggerStep(r)

TriggerSpec == Init /\ [][TriggerNext]_vars

\* One invocation after another while the Slack webhook may reject posts.
StartFlaky(r) ==
  /\ run[r].pc = "idle"
  /\ \A q \in Runs : q < r => run[q].pc = "done"
  /\ \E kind \in Kinds, request \in Requests, remote \in FlakyRemotes :
       Begin(r, kind, request, TRUE, remote)
  /\ UNCHANGED <<store, inventoryKeyed, clock, hooks, view, stateFile>>

FlakyStep(r) ==
  \/ StartFlaky(r)
  \/ ProductsPage(r)
  \/ UpsertProduct(r)
  \/ Locations(r)
  \/ InventoryFirst(r)
  \/ InventoryNext(r)
  \/ BuildMap(r)
  \/ UpsertInventory(r)
  \/ OrdersFirst(r)
  \/ OrdersNext(r)
  \/ InsertLineItem(r)
  \/ SelectSkus(r)
  \/ SelectSales(r)
  \/ SelectStock(r)
  \/ UpsertMetric(r)
  \/ Alert(r)
  \/ Complete(r)

FlakyNext == \E r \in Runs : FlakyStep(r)

FlakySpec == Init /\ [][FlakyNext]_vars

\* One invocation at a time against a shop that never ends its listings.
\* Every await of the handler settles (the requests carry timeouts), so a
\* run that can take a step eventually takes one.
CyclicStep(r) ==
  \/ StartCyclic(r)
  \/ ProductsPage(r)
  \/ UpsertProduct(r)
  \/ Locations(r)
  \/ InventoryFirst(r)
  \/ InventoryNext(r)
  \/ BuildMap(r)
  \/ UpsertInventory(r)
  \/ OrdersFirst(r)
  \/ OrdersNext(r)
  \/ InsertLineItem(r)
  \/ SelectSkus(r)
  \/ SelectSales(r)
  \/ SelectStock(r)
  \/ UpsertMetric(r)
  \/ Alert(r)
  \/ Complete(r)

CyclicNext == CyclicStep(1)

CyclicSpec == Init /\ [][CyclicNext]_vars /\ WF_vars(CyclicNext)

----------------------------------------------------------------------------
(* What the properties below are measured against: sums taken directly over rows *)

Range(s) == {s[i] : i \in 1..Len(s)}

RECURSIVE SumOver(_, _)
SumOver(S, f) ==
  IF S = {} THEN 0
  ELSE LET x == CHOOSE y \in S : TRUE IN f[x] + SumOver(S \ {x}, f)

\* units of sku sold on the n days ending with day now, by the rows of tbl
WindowSales(tbl, sku, now, n) ==
  LET in == {i \in 1..Len(tbl) :
               /\ tbl[i].sku = sku
               /\ tbl[i].created_at > now - n
               /\ tbl[i].created_at <= now}
  IN SumOver(in, [i \in in |-> tbl[i].quantity])

\* units of sku available over all locations, by the rows of tbl
StockSum(tbl, sku) ==
  LET in == {i \in 1..Len(tbl) : tbl[i].sku = sku}
  IN SumOver(in, [i \in in |-> tbl[i].available])

Computed == {c \in UNION {Range(run[r].computed) : r \in Runs} : TRUE}

\* a SKU that is missing, empty or made of spaces only
Blank(sku) == \A i \in 1..Len(sku) : sku[i] = Space

\* the tables as they are
Tables ==
  [products |-> products, locations |-> locations,
   inventory_levels |-> inventory_levels, orders_lineitems |-> orders_lineitems,
   metrics_daily |-> metrics_daily]

RECURSIVE UpsertProductRows(_, _)
UpsertProductRows(tbl, rows) ==
  IF rows = <<>> THEN tbl
  ELSE UpsertProductRows(UpsertProductRow(tbl, Head(rows)), Tail(rows))

RECURSIVE UpsertInventoryRows(_, _)
UpsertInventoryRows(tbl, rows) ==
  IF rows = <<>> THEN tbl
  ELSE UpsertInventoryRows(UpsertInventoryRow(tbl, Head(rows)), Tail(rows))

\* the metrics row of sku on day today over the order rows os and the
\* inventory rows inv
RollupRow(sku, os, inv, today) ==
  LET daily == SelectDailySales(os, sku, today)
      days == DaysOf(daily, today)
      stock == CurrentStock(SelectStockTotal(inv, sku))
  IN [sku |-> sku, date |-> today, daily_sales |-> TodaySales(daily, today),
      rolling7 |-> [num |-> SumSeq(LastDays(days)), den |-> Avg7Div],
      rolling30 |-> [num |-> SumSeq(days), den |-> Avg30Div],
      current_stock |-> stock, days_of_cover |-> DaysOfCover(stock, SumSeq(days))]

\* the tables one complete invocation of the handler leaves when it starts
\* on empty tables, fetches what rec fetched and rolls up on day rec.today
OneRunFromEmpty(rec) ==
  LET ps == UpsertProductRows(<<>>, ProductRows(rec.products))
      map == BuildInvItemToSku(SelectVariantIds(ps), EmptyMap)
      inv == UpsertInventoryRows(<<>>, InventoryRows(rec.invLevels, map))
      os == InsertLineItems(<<>>, OrderRows(rec.orders, FALSE))
  IN [products |-> ps,
      locations |-> UpsertLocations(<<>>, LocationsPayload),
      inventory_levels |-> inv,
      orders_lineitems |-> os,
      metrics_daily |-> [i \in 1..Len(ps) |-> RollupRow(ps[i].sku, os, inv, rec.today)]]

IsPrefix(a, b) == Len(a) <= Len(b) /\ a = SubSeq(b, 1, Len(a))

\* the handler ran to its end and every fetch of it succeeded
CompleteRun(r) ==
  /\ run[r].pc = "done" /\ run[r].outcome = "completed"
  /\ run[r].kind = "api" /\ run[r].fetchFailed = {}

\* run q ended early, having fetched part of what run r fetched
EndedEarly(q, r) ==
  /\ run[q].pc = "done" /\ run[q].outcome \in {"cut", "failed"}
  /\ IsPrefix(run[q].products, run[r].products)
  /\ IsPrefix(run[q].invLevels, run[r].invLevels)
  /\ IsPrefix(run[q].orders, run[r].orders)

\* r is the latest run, it is complete, and the runs before it ended early
Recovered(r) ==
  /\ CompleteRun(r)
  /\ \A q \in Runs : q > r => run[q].pc = "idle"
  /\ \A q \in Runs : q < r => EndedEarly(q, r)

\* the run went through all of its persistence stages
Persisted(r) ==
  /\ run[r].pc = "done"
  /\ run[r].outcome = "completed"

----------------------------------------------------------------------------
(* C1: two invocations in succession that fetched the same products,       *)
(* inventory levels and orders, with no webhook in between, leave the row  *)
(* counts of products, inventory_levels and orders_lineitems after the     *)
(* second equal to the counts after the first.                             *)
C1_SameCountsAfterRerun ==
  \A r \in Runs \ {1} :
    ( /\ Persisted(r - 1)
      /\ Persisted(r)
      /\ run[r].products = run[r - 1].products
      /\ run[r].invLevels = run[r - 1].invLevels
      /\ run[r].orders = run[r - 1].orders
      /\ run[r].hooksAtEnd = run[r - 1].hooksAtEnd )
    => run[r].counts = run[r - 1].counts

C1_Witness ==
  /\ inventoryKeyed
  /\ Persisted(1)
  /\ Persisted(2)
  /\ run[2].products = run[1].products
  /\ run[2].invLevels = run[1].invLevels
  /\ run[2].orders = run[1].orders
  /\ run[2].hooksAtEnd = run[1].hooksAtEnd
  /\ {"products", "inventory", "orders"} \subseteq run[2].wrote
  /\ run[2].counts = run[1].counts
  /\ \A k \in 1..3 : run[2].counts[k] >= 2

(* C2: orders_lineitems never holds two rows with the same (order_id, sku), *)
(* whatever runs and order webhooks have inserted.                          *)
C2_OneRowPerOrderSku ==
  \A i, j \in 1..Len(orders_lineitems) :
    ( /\ orders_lineitems[i].order_id = orders_lineitems[j].order_id
      /\ orders_lineitems[i].sku = orders_lineitems[j].sku )
    => i = j

\* order 2 carries SKU A twice and has been fetched and stored; order 1
\* came by webhook and by fetch
C2_Witness ==
  /\ \E r \in Runs : run[r].pc = "done" /\ run[r].outcome = "completed"
                     /\ Len(run[r].orders) = 2 /\ run[r].orders[2].id = 2
  /\ hooks = 1
  /\ Cardinality({i \in 1..Len(orders_lineitems) :
                    orders_lineitems[i].order_id = Str(2)}) = 1
  /\ Cardinality({i \in 1..Len(orders_lineitems) :
                    orders_lineitems[i].order_id = Str(1)}) = 1
  /\ orders_lineitems[1].order_id = Str(1)
  /\ orders_lineitems[1].price = 5

(* C3: in every metrics_daily row, days_of_cover is null exactly when      *)
(* rolling30 is 0, and otherwise it is current_stock / rolling30; no       *)
(* quotient has a zero divisor.                                            *)
C3_CoverNullIffNoDemand ==
  \A i \in 1..Len(metrics_daily) :
    LET m == metrics_daily[i]
    IN /\ IsNull(m.days_of_cover) <=> m.rolling30.num = 0
       /\ ~IsNull(m.days_of_cover) =>
            /\ Val(m.days_of_cover).den # 0
            /\ m.rolling30.den # 0
            \* cover = stock / (num/den)  <=>  cover.num * num = stock * den * cover.den
            /\ Val(m.days_of_cover).num * m.rolling30.num
                 = m.current_stock * m.rolling30.den * Val(m.days_of_cover).den

C3_Witness ==
  /\ \E i \in 1..Len(metrics_daily) :
       /\ IsNull(metrics_daily[i].days_of_cover)
       /\ metrics_daily[i].current_stock > 0
  /\ \E i \in 1..Len(metrics_daily) :
       /\ ~IsNull(metrics_daily[i].days_of_cover)
       /\ metrics_daily[i].current_stock > 0

(* C4: every row the rollup computes has rolling30 = (units sold on the 30 *)
(* days ending today)/30 and rolling7 = (units sold on the 7 days ending   *)
(* today)/7, over the order rows the sales query saw; a SKU without sales  *)
(* in those 30 days gets rolling30 = 0 and days_of_cover = null.           *)
C4_RollingAverages ==
  \A c \in Computed :
    LET seen == SubSeq(orders_lineitems, 1, c.seenOrders)
        s30 == WindowSales(seen, c.row.sku, c.windowNow, 30)
        s7 == WindowSales(seen, c.row.sku, c.windowNow, 7)
    IN /\ c.row.rolling30 = [num |-> s30, den |-> 30]
       /\ c.row.rolling7 = [num |-> s7, den |-> 7]
       /\ s30 = 0 => (c.row.rolling30.num = 0 /\ IsNull(c.row.days_of_cover))

\* A sold 15 ten days ago and 2 today; B only 30 days ago
C4_Witness ==
  /\ \E c \in Computed :
       /\ c.row.sku = SkuA /\ c.row.rolling30.num = 17 /\ c.row.rolling7.num = 2
  /\ \E c \in Computed :
       /\ c.row.sku = SkuB /\ c.row.rolling30.num = 0
       /\ \E i \in 1..c.seenOrders : orders_lineitems[i].sku = SkuB

(* C5: the current_stock the rollup computes for a SKU is the sum of       *)
(* available over the inventory_levels rows of that SKU as the stock query *)
(* found them, 0 when there is none.                                       *)
C5_StockIsSumOfRows ==
  \A c \in Computed : c.row.current_stock = StockSum(c.seenStock, c.row.sku)

\* A: 20 at L1, overwritten by the second run, and 1 at L2, left by the
\* first; a SKU without any row
C5_Witness ==
  /\ \E c \in Computed :
       /\ c.row.sku = SkuA /\ c.row.current_stock = 21
       /\ Cardinality({i \in 1..Len(c.seenStock) : c.seenStock[i].sku = SkuA}) = 2
  /\ \E c \in Computed :
       /\ c.row.current_stock = 0
       /\ \A i \in 1..Len(c.seenStock) : c.seenStock[i].sku # c.row.sku

(* C6: once the rollup has dealt with a SKU, it has sent a restock alert   *)
(* for it exactly if days_of_cover is not null and current_stock/rolling30 *)
(* is at most 14; with rolling30 = 0 there is no alert.                    *)
C6_AlertIffLowCover ==
  \A r \in Runs :
    \A k \in 1..Len(run[r].computed) :
      LET c == run[r].computed[k]
          pending == run[r].pc = "alert" /\ k = Len(run[r].computed)
          alerted == \E a \in run[r].alerts : a.sku = c.row.sku
          low == /\ c.row.rolling30.num > 0
                 /\ c.row.current_stock * 30 <= 14 * c.row.rolling30.num
      IN /\ ~pending => (alerted <=> (~IsNull(c.row.days_of_cover) /\ low))
         /\ c.row.rolling30.num = 0 => ~alerted

\* cover of exactly 14 days alerts (7 in stock, 15 sold in 30 days); at the
\* same time a SKU with stock and no sales does not
C6_Witness ==
  \E r \in Runs :
    /\ run[r].pc = "complete"
    /\ \E a \in run[r].alerts : a.current_stock = 7 /\ a.sum30 = 15
    /\ \E k \in 1..Len(run[r].computed) :
         /\ run[r].computed[k].row.rolling30.num = 0
         /\ run[r].computed[k].row.current_stock > 0
         /\ \A a \in run[r].alerts : a.sku # run[r].computed[k].row.sku

(* C7: inventory_levels never holds two rows with the same                 *)
(* (sku, location_id), and the key of the latest write, by a run or by an  *)
(* inventory webhook, has one row, carrying the value written.             *)
C7_OneRowPerSkuLocation ==
  /\ \A i, j \in 1..Len(inventory_levels) :
       ( /\ inventory_levels[i].sku = inventory_levels[j].sku
         /\ inventory_levels[i].location_id = inventory_levels[j].location_id )
       => i = j
  /\ ~IsNull(lastLevel) =>
       \E i \in 1..Len(inventory_levels) :
         /\ inventory_levels[i].sku = Val(lastLevel).sku
         /\ inventory_levels[i].location_id = Val(lastLevel).location_id
         /\ inventory_levels[i].available = Val(lastLevel).available

(* C8: when a run is about to report success, metrics_daily holds, for     *)
(* every SKU of products, exactly one row dated with the run's day, equal  *)
(* to what the run computed, and no other row of that date: a second run   *)
(* of the day has overwritten, not added.                                  *)
C8_OneMetricPerSkuToday ==
  \A r \in Runs :
    run[r].pc = "complete" =>
      LET todays == {i \in 1..Len(metrics_daily) :
                       metrics_daily[i].date = run[r].today}
      IN /\ \A p \in 1..Len(products) :
              /\ Cardinality({i \in todays :
                                metrics_daily[i].sku = products[p].sku}) = 1
              /\ \E i \in todays, c \in Range(run[r].computed) :
                   /\ metrics_daily[i].sku = products[p].sku
                   /\ c.row = metrics_daily[i]
                   /\ \A k \in 1..Len(run[r].computed) :
                        run[r].computed[k].row.sku = products[p].sku
                          => run[r].computed[k] = c
         /\ Cardinality(todays) = Len(products)

\* the second run of the day replaced A's row: stock 21, where the first
\* run, having fetched two levels of 6 and 1, stored 7
C8_Witness ==
  /\ run[1].pc = "done" /\ run[1].outcome = "completed"
  /\ "metrics" \in run[1].wrote
  /\ Len(run[1].invLevels) = 2
  /\ run[2].pc = "complete"
  /\ run[2].today = run[1].today
  /\ Len(products) = 2
  /\ Len(metrics_daily) = 2
  /\ \E i \in 1..Len(metrics_daily) :
       metrics_daily[i].sku = SkuA /\ metrics_daily[i].current_stock = 21

(* C9: a run with a failed product page request has ended in failure, with *)
(* status 500 for the HTTP trigger, has written no inventory, order line   *)
(* item or metrics row and has sent no restock alert.                      *)
C9_ProductFailureAborts ==
  \A r \in Runs :
    "products" \in run[r].fetchFailed =>
      /\ run[r].pc = "done"
      /\ run[r].outcome = "failed"
      /\ run[r].kind = "api" => run[r].status = 500
      /\ run[r].wrote \cap {"inventory", "orders", "metrics"} = {}
      /\ run[r].alerts = {}
      /\ run[r].invLevels = <<>>
      /\ run[r].orders = <<>>

\* the second product page failed for the HTTP trigger
C9_Witness ==
  \E r \in Runs :
    /\ "products" \in run[r].fetchFailed
    /\ run[r].kind = "api"
    /\ run[r].status = 500
    /\ Len(run[r].products) = 1
    /\ run[r].counts = <<0, 0, 0>>

(* C10: a run whose locations request or one of whose inventory level      *)
(* requests failed still ends in success, having stored the levels it had  *)
(* fetched, fetched orders and computed metrics.                           *)
C10_InventoryFailureTolerated ==
  \A r \in Runs :
    ( /\ run[r].pc = "done"
      /\ run[r].fetchFailed \cap {"locations", "inventory"} # {} )
    => /\ run[r].outcome = "completed"
       /\ "metrics" \in run[r].wrote
       /\ run[r].invLevels # <<>> => "inventory" \in run[r].wrote

(* C11: a run whose orders request failed, on the first page or a later    *)
(* one, still ends in success, having inserted no order line item and      *)
(* having computed metrics.                                                *)
C11_OrdersFailureEmptySet ==
  \A r \in Runs :
    (run[r].pc = "done" /\ "orders" \in run[r].fetchFailed)
    => /\ run[r].outcome = "completed"
       /\ "orders" \notin run[r].wrote
       /\ "metrics" \in run[r].wrote

C13_PagingLoopsEnd ==
  \A r \in Runs :
    /\ (run[r].pc \in {"products", "upsertProduct"})
         ~> (run[r].pc \notin {"products", "upsertProduct"})
    /\ (run[r].pc \in {"inventory", "inventoryNext"})
         ~> (run[r].pc \notin {"inventory", "inventoryNext"})
    /\ (run[r].pc \in {"orders", "ordersNext"})
         ~> (run[r].pc \notin {"orders", "ordersNext"})

(* C14: while two runs overlap, whatever the interleaving of their         *)
(* statements, no table holds two rows with the same key: sku in products, *)
(* (sku, location_id) in inventory_levels, (order_id, sku) in              *)
(* orders_lineitems, (sku, date) in metrics_daily; and when both runs have *)
(* finished their rollup, each metrics row is the one computed by one of   *)
(* them.                                                                   *)
C14_NoDuplicateUnderOverlap ==
  /\ \A i, j \in 1..Len(products) : products[i].sku = products[j].sku => i = j
  /\ \A i, j \in 1..Len(inventory_levels) :
       ( /\ inventory_levels[i].sku = inventory_levels[j].sku
         /\ inventory_levels[i].location_id = inventory_levels[j].location_id )
       => i = j
  /\ \A i, j \in 1..Len(orders_lineitems) :
       ( /\ orders_lineitems[i].order_id = orders_lineitems[j].order_id
         /\ orders_lineitems[i].sku = orders_lineitems[j].sku )
       => i = j
  /\ \A i, j \in 1..Len(metrics_daily) :
       ( /\ metrics_daily[i].sku = metrics_daily[j].sku
         /\ metrics_daily[i].date = metrics_daily[j].date )
       => i = j
  /\ (\A r \in Runs : run[r].pc = "complete") =>
       \A i \in 1..Len(metrics_daily) :
         \E c \in Computed : c.row = metrics_daily[i]

\* both runs are in flight at once, each has written to every table, and
\* they fetched different data
C14_Witness ==
  /\ inventoryKeyed
  /\ run[1].pc = "complete" /\ run[2].pc = "complete"
  /\ \A r \in Runs :
       {"products", "inventory", "orders", "metrics"} \subseteq run[r].wrote
  /\ run[1].invLevels # run[2].invLevels
  /\ Len(inventory_levels) >= 3
  /\ Len(orders_lineitems) >= 2
  /\ Len(metrics_daily) = 2

(* C17: a notification that fails to be delivered changes nothing of the   *)
(* run: a failed restock alert leaves the store as it is and the rollup    *)
(* goes on to the next SKU (or to completion after the last one); a failed *)
(* completion message leaves the store as it is and the run still ends     *)
(* completed, the handler answering 200.                                   *)
C17_NotificationFailureHarmless ==
  [][ \A r \in Runs :
        (run'[r].undelivered # run[r].undelivered) =>
          /\ store' = store
          /\ (run[r].pc = "alert") =>
               /\ run'[r].skus = Tail(run[r].skus)
               /\ run'[r].pc = IF Tail(run[r].skus) = <<>> THEN "complete" ELSE "sales"
               /\ run'[r].outcome = "none"
          /\ (run[r].pc = "complete") =>
               /\ run'[r].pc = "done"
               /\ run'[r].outcome = "completed"
               /\ run'[r].status = IF run[r].kind = "api" THEN 200 ELSE 0
          /\ run[r].pc \in {"alert", "complete"} ]_vars

\* a handler run answered 200 although neither the alert for its first SKU
\* nor its completion message was delivered, and the SKU after the failed
\* alert has its row
C17_Witness ==
  \E r \in Runs :
    /\ run[r].pc = "done" /\ run[r].kind = "api" /\ run[r].status = 200
    /\ run[r].undelivered = {Some(SkuA), Null}
    /\ \E i \in 1..Len(metrics_daily) :
         metrics_daily[i].sku = SkuB /\ metrics_daily[i].date = run[r].today

(* C16: a trigger request that carries the secret neither in its           *)
(* x-etl-secret header nor in its secret parameter (absent or wrong in     *)
(* both) is answered 401 at once: the run has fetched nothing from the     *)
(* shop and the step leaves every table as it was.                         *)
C16_WrongSecretRejected ==
  [][ \A r \in Runs :
        ( /\ run[r].pc = "idle" /\ run'[r].pc # "idle"
          /\ run'[r].kind = "api"
          /\ run'[r].request.header # Some(ETL_SECRET)
          /\ run'[r].request.query # Some(ETL_SECRET) )
        => /\ run'[r].pc = "done"
           /\ run'[r].status = 401
           /\ run'[r].products = <<>> /\ run'[r].invLevels = <<>>
           /\ run'[r].orders = <<>> /\ run'[r].fetchFailed = {}
           /\ run'[r].wrote = {}
           /\ store' = store ]_vars

\* after a complete run has filled the store, a request with a wrong header
\* and no parameter was answered 401 and the store is as that run left it
C16_Witness ==
  /\ run[1].pc = "done" /\ run[1].outcome = "completed"
  /\ run[2].pc = "done" /\ run[2].status = 401
  /\ run[2].request = [header |-> Some("guess"), query |-> Null]
  /\ run[2].wrote = {}
  /\ Counts = run[1].counts /\ Len(products) > 0

(* C18: a variant or line item whose SKU is missing, empty or only         *)
(* whitespace produces no row: no products or orders_lineitems row ever    *)
(* has such a SKU; it produces no error: a run fails only on a failed      *)
(* fetch or a rejected inventory statement; and what comes with it is      *)
(* still stored: after a completed run every variant and line item it      *)
(* fetched that has a SKU is in the store under its trimmed SKU.           *)
C18_BlankSkuSkipped ==
  /\ \A i \in 1..Len(products) : ~Blank(products[i].sku)
  /\ \A i \in 1..Len(orders_lineitems) : ~Blank(orders_lineitems[i].sku)
  /\ \A r \in Runs :
       run[r].outcome = "failed" => (run[r].fetchFailed # {} \/ ~inventoryKeyed)
  /\ \A r \in Runs :
       Persisted(r) =>
         /\ \A p \in Range(run[r].products) : \A v \in Range(p.variants) :
              ~Blank(v.sku) =>
                \E i \in 1..Len(products) : products[i].sku = Trim(v.sku)
         /\ \A o \in Range(run[r].orders) : \A li \in Range(o.line_items) :
              ~Blank(li.sku) =>
                \E i \in 1..Len(orders_lineitems) :
                  /\ orders_lineitems[i].order_id = Str(o.id)
                  /\ orders_lineitems[i].sku = Trim(li.sku)

\* a completed run fetched a product whose first variant has a blank SKU and
\* whose second has one, and an order whose first line item has no SKU
C18_Witness ==
  \E r \in Runs :
    /\ Persisted(r)
    /\ \E p \in Range(run[r].products) :
         /\ Len(p.variants) >= 2
         /\ Blank(p.variants[1].sku) /\ ~Blank(p.variants[2].sku)
    /\ \E o \in Range(run[r].orders) :
         /\ Len(o.line_items) >= 2
         /\ Blank(o.line_items[1].sku) /\ ~Blank(o.line_items[2].sku)
    /\ Len(products) = 2

(* C19: for a row with a previous-month quantity prev > 0 the trend is     *)
(* fast if mtd >= 1.5 * prev, slow if mtd <= 0.7 * prev, steady otherwise. *)
C19_TrendByMonthToDate ==
  (view.pc = "answered" /\ Val(view.prev_mtd) > 0) =>
    view.trend =
      IF 10 * Val(view.mtd) >= 15 * Val(view.prev_mtd) THEN "fast"
      ELSE IF 10 * Val(view.mtd) <= 7 * Val(view.prev_mtd) THEN "slow"
      ELSE "steady"

(* C20: for a row without a previous-month quantity the trend is fast if   *)
(* avg7 >= 1.5 * rolling30, slow if avg7 <= 0.7 * rolling30, steady        *)
(* otherwise, avg7 being the mean of the seven daily sales and rolling30   *)
(* the stored value, whatever it is, 0 included.                           *)
C20_TrendByRollingAverage ==
  (view.pc = "answered" /\ Val(view.prev_mtd) = 0 /\ ~IsNull(view.rolling30)) =>
    LET sum7 == SumSeq(view.series)
        r30 == Val(view.rolling30)
    IN view.trend =
         IF 10 * sum7 * r30.den >= 15 * r30.num * Last7 THEN "fast"
         ELSE IF 10 * sum7 * r30.den <= 7 * r30.num * Last7 THEN "slow"
         ELSE "steady"

(* C15 as stated: once a complete run has followed runs that ended early   *)
(* over the same remote data, the tables are those one complete run leaves *)
(* on the original (empty) tables.                                         *)
C15_RerunConverges ==
  \A r \in Runs : Recovered(r) => Tables = OneRunFromEmpty(run[r])

(* C15, amended: the same for products, locations, inventory_levels and    *)
(* orders_lineitems and for the metrics rows of the day of the complete    *)
(* run; any other metrics row is one that a run which ended early wrote on *)
(* an earlier day, and there is none when all runs took place on one day.  *)
C15_RerunConvergesButForOlderMetrics ==
  \A r \in Runs :
    Recovered(r) =>
      LET one == OneRunFromEmpty(run[r])
          older == SelectSeq(metrics_daily, LAMBDA m : m.date # run[r].today)
      IN /\ [Tables EXCEPT !.metrics_daily =
               SelectSeq(@, LAMBDA m : m.date = run[r].today)] = one
         /\ \A i \in 1..Len(older) :
              \E q \in Runs :
                /\ q < r /\ "metrics" \in run[q].wrote
                /\ run[q].today = older[i].date /\ run[q].today < run[r].today
         /\ (\A q \in Runs : q < r => run[q].today = run[r].today) => older = <<>>

\* the first run was cut off between its inventory and its order writes, the
\* second fetched the same shop completely and ran to its end
C15_Witness ==
  /\ run[1].pc = "done" /\ run[1].outcome = "cut"
  /\ "inventory" \in run[1].wrote /\ "orders" \notin run[1].wrote
  /\ Recovered(2)
  /\ Len(run[2].orders) = 2 /\ Len(metrics_daily) = 2 /\ Len(inventory_levels) >= 2

----------------------------------------------------------------------------
(* The order of the stages of one run *)

\* the requests of the product, inventory and order fetches
FetchPcs == {"products", "inventory", "inventoryNext", "orders", "ordersNext"}

\* the statements that store what was fetched
PersistPcs == {"upsertProduct", "locations", "upsertInventory", "insertLineItem"}

\* the metrics loop and the completion message
MetricPcs == {"skus", "sales", "stock", "metric", "alert", "complete"}

\* the stage a statement belongs to: products, locations, inventory,
\* orders, metrics, in the order of the handler's text
StageOf(pc) ==
  CASE pc \in {"products", "upsertProduct"} -> 1
    [] pc = "locations" -> 2
    [] pc \in {"inventory", "inventoryNext", "buildMap", "upsertInventory"} -> 3
    [] pc \in {"orders", "ordersNext", "insertLineItem"} -> 4
    [] OTHER -> 5

\* the stage that follows: the worker has no locations stage
StageAfter(kind, stage) ==
  IF kind = "worker" /\ stage = 1 THEN 3 ELSE stage + 1

\* the tables a statement may write
Writes(pc) ==
  CASE pc = "upsertProduct" -> {"products"}
    [] pc = "locations" -> {"locations"}
    [] pc = "upsertInventory" -> {"inventory_levels"}
    [] pc = "insertLineItem" -> {"orders_lineitems"}
    [] pc = "metric" -> {"metrics_daily"}
    [] OTHER -> {}

\* the tables a step changes
Changed ==
  {t \in DOMAIN Tables : Tables[t] # Tables'[t]}

(* C21 as stated: within one run no fetched record is stored while the     *)
(* product, inventory or order fetch is still to be done, and whatever is  *)
(* stored of them is stored before any metrics row is written or any       *)
(* alert is sent.                                                          *)
C21_FetchAllThenPersist ==
  \A r \in Runs :
    /\ run[r].pc \in FetchPcs => run[r].wrote = {}
    /\ ("metrics" \in run[r].wrote \/ run[r].alerts # {}) =>
         run[r].pc \in MetricPcs \cup {"done"}

(* C21, amended: within one run the stages follow each other as products,  *)
(* (locations,) inventory, orders, metrics, none left out and none entered *)
(* again; the records of a stage are stored inside that stage, after the   *)
(* requests that fetched them (the worker stores the variants of each      *)
(* product page before it asks for the next page), so the products are     *)
(* stored before the inventory is fetched and the inventory before the     *)
(* orders are; a statement of the metrics stage writes metrics_daily only. *)
C21_StagesInSequence ==
  [][\A r \in Runs :
       LET a == run[r]
           b == run'[r]
       IN (a # b /\ a.pc \notin {"idle", "done"}) =>
            /\ Changed \subseteq Writes(a.pc)
            /\ b.pc # "done" =>
                 /\ StageOf(b.pc) \in {StageOf(a.pc), StageAfter(a.kind, StageOf(a.pc))}
                 /\ (StageOf(b.pc) = StageOf(a.pc) /\ a.pc \in PersistPcs) =>
                      \/ b.pc \in PersistPcs
                      \/ a.kind = "worker" /\ a.pc = "upsertProduct" /\ b.pc = "products"
                 /\ a.pc \in MetricPcs => b.pc \in MetricPcs]_vars

\* a run that stored products, inventory levels and line items, then wrote
\* metrics and sent an alert, and ended
C21_Witness ==
  \E r \in Runs :
    /\ run[r].pc = "done" /\ run[r].outcome = "completed"
    /\ {"products", "inventory", "orders", "metrics"} \subseteq run[r].wrote
    /\ run[r].alerts # {}
    /\ Len(inventory_levels) > 0 /\ Len(orders_lineitems) > 0 /\ Len(metrics_daily) > 0

(* C22: orders_lineitems is append-only.  No step of a sync run and no     *)
(* webhook delivery changes or removes a row that is stored: every step    *)
(* leaves the rows there were, in their order, and at most adds rows after *)
(* them, also when the line item it carries has another quantity or price. *)
C22_LineItemsAppendOnly ==
  [][IsPrefix(orders_lineitems, orders_lineitems')]_vars

\* the row of order 1 holds the quantity 15 it was first stored with, after
\* a later run fetched order 1 with quantity 9 and issued its insert
C22_Witness ==
  /\ Len(orders_lineitems) > 0
  /\ orders_lineitems[1].order_id = Str(1) /\ orders_lineitems[1].quantity = 15
  /\ run[2].pc = "done" /\ run[2].outcome = "completed"
  /\ "orders" \in run[2].wrote
  /\ \E i \in 1..Len(run[2].orders) :
       /\ run[2].orders[i].id = 1
       /\ run[2].orders[i].line_items = <<LineItem(SkuA, 9)>>

----------------------------------------------------------------------------
(* The SKU an inventory level is stored under *)

\* the product rows whose stored variant_id ends in the item id of a level
VariantMatches(tbl, item) ==
  {i \in 1..Len(tbl) :
     /\ ~IsNull(tbl[i].variant_id) /\ ~IsNull(item.inventory_item_id)
     /\ LastPart(Val(tbl[i].variant_id)) = Val(item.inventory_item_id)}

\* the SKU of that product row (the last selected, should there be several),
\* else the SKU of the payload, else none
SkuByVariantId(tbl, item) ==
  LET hit == VariantMatches(tbl, item)
  IN IF hit # {} THEN tbl[CHOOSE i \in hit : \A j \in hit : j <= i].sku
     ELSE item.sku

\* the levels stored under such a SKU, one row each, and no other
RECURSIVE RowsByVariantId(_, _)
RowsByVariantId(tbl, items) ==
  IF items = <<>> THEN <<>>
  ELSE LET item == Head(items)
           sku == SkuByVariantId(tbl, item)
       IN (IF sku = Null THEN <<>>
           ELSE << [sku |-> sku, location_id |-> OrElse(item.location_id, "unknown"),
                    available |-> OrElse(item.available, 0)] >>)
          \o RowsByVariantId(tbl, Tail(items))

\* sku, location_id and available of the rows of inventory_levels
LevelColumns(tbl) ==
  [i \in 1..Len(tbl) |->
     [sku |-> tbl[i].sku, location_id |-> tbl[i].location_id,
      available |-> tbl[i].available]]

\* the first run has just left its inventory stage on a store that takes
\* its statements
FirstInventoryStored ==
  /\ inventoryKeyed
  /\ run[1].pc = "orders"
  /\ run[1].invLevels # <<>>

(* C23: each fetched inventory level is stored under the SKU of the        *)
(* product row whose stored variant identifier ends in the level's         *)
(* inventory item id; without such a row, under the SKU of the payload;    *)
(* without either it is not stored.  Checked on the first run, when it     *)
(* leaves its inventory stage: the table holds those rows and no other.    *)
C23_LevelSkuByVariantId ==
  FirstInventoryStored =>
    LevelColumns(inventory_levels)
      = UpsertInventoryRows(<<>>, RowsByVariantId(products, run[1].invLevels))

\* the variants a run fetched that have a SKU and an inventory item
FetchedVariants(rec) ==
  UNION { {p.variants[i] : i \in {j \in 1..Len(p.variants) :
                                    /\ ~Blank(p.variants[j].sku)
                                    /\ ~IsNull(p.variants[j].inventoryItem)}}
          : p \in Range(rec.products) }

\* the fetched levels of the inventory item of variant v
LevelsOf(rec, v) ==
  {i \in 1..Len(rec.invLevels) :
     /\ ~IsNull(rec.invLevels[i].inventory_item_id)
     /\ Val(rec.invLevels[i].inventory_item_id) = LastPart(Val(v.inventoryItem))}

(* C24: every fetched inventory level whose inventory item is that of a    *)
(* fetched variant with a SKU is stored under the SKU of that variant, and *)
(* the current_stock written for the SKU is the sum of the levels of its   *)
(* own inventory item.  Checked on the first run, on a store that takes    *)
(* its statements: after its inventory stage each such level is a row      *)
(* under the variant's SKU, and when it has ended (no other run begun)    *)
(* the metrics row of the SKU carries the sum of those levels.            *)
C24_LevelUnderOwnSku ==
  (inventoryKeyed /\ run[1].fetchFailed = {}) =>
    \A v \in FetchedVariants(run[1]) :
      LET own == LevelsOf(run[1], v)
          levels == run[1].invLevels
      IN /\ run[1].pc = "orders" =>
              \A i \in own :
                \E k \in 1..Len(inventory_levels) :
                  /\ inventory_levels[k].sku = Trim(v.sku)
                  /\ inventory_levels[k].location_id = OrElse(levels[i].location_id, "unknown")
                  /\ inventory_levels[k].available = OrElse(levels[i].available, 0)
         /\ (run[1].pc = "done" /\ run[1].outcome = "completed"
               /\ \A q \in Runs : q > 1 => run[q].pc = "idle") =>
              \A k \in 1..Len(metrics_daily) :
                metrics_daily[k].sku = Trim(v.sku) =>
                  metrics_daily[k].current_stock
                    = SumOver(own, [i \in own |-> OrElse(levels[i].available, 0)])

----------------------------------------------------------------------------
(* Following the Link header *)

\* the URL of the rel="next" entry of a header, none when it has no such entry
NextEntry(entries) ==
  LET next == {i \in 1..Len(entries) : entries[i].rel = RelNext}
  IN IF next = {} THEN Null ELSE entries[CHOOSE i \in next : TRUE].url

\* the records of all pages of a listing, each page once, in order
RECURSIVE AllPages(_)
AllPages(pages) ==
  IF pages = <<>> THEN <<>> ELSE Head(pages) \o AllPages(Tail(pages))

(* C25: in the inventory and in the orders fetch every follow-up request   *)
(* goes to the URL of the rel="next" entry of the Link header of the       *)
(* response before it, and the fetch ends without error when there is no   *)
(* such entry: a run about to send a follow-up request holds that URL as   *)
(* its address, and a run whose requests the shop all answered has, once   *)
(* the fetch is over, collected the records of every page, each once.      *)
C25_FollowsNextLink ==
  \A r \in Runs :
    LET rec == run[r]
    IN /\ rec.pc = "inventoryNext" =>
            rec.nextUrl = NextEntry(LinkEntries(rec.remote, rec.pages + 1,
                                                Len(rec.remote.levels)))
       /\ rec.pc = "ordersNext" =>
            rec.next = NextEntry(LinkEntries(rec.remote, rec.pageCount + 1,
                                             Len(rec.remote.orders)))
       /\ (rec.pc \in {"upsertInventory", "pickLevel", "orders"}
           /\ "inventory" \notin rec.fetchFailed) =>
            /\ rec.invLevels = AllPages(rec.remote.levels)
            /\ "address" \notin rec.fetchFailed
       /\ (rec.pc \in {"insertLineItem", "skus"} /\ "orders" \notin rec.fetchFailed) =>
            rec.orders = AllPages(rec.remote.orders)

----------------------------------------------------------------------------
(* The windows of the trend *)

\* the day a timestamp falls on
DayOfStamp(created_at) == created_at \div TicksPerDay

\* the first d calendar days of the month that starts on day first
InFirstDays(created_at, first, d) ==
  /\ DayOfStamp(created_at) >= first
  /\ DayOfStamp(created_at) <= first + d - 1

(* C26: on day d of a month, the month-to-date quantity is that of the     *)
(* orders of the first d calendar days of the month, and the previous-     *)
(* month quantity is that of the orders of the first d calendar days of    *)
(* the previous month (of all its days, should it have fewer than d).      *)
C26_SameElapsedDays ==
  view.pc = "answered" =>
    LET d == DatePartDay(view.today)
        prevDays == MonthLengths[MonthOfDay(view.today) - 1]
        InMonth(t, today) == InFirstDays(t, DateTruncMonth(today), d)
        InPrev(t, today) ==
          InFirstDays(t, PrevMonthStart(today), IF d < prevDays THEN d ELSE prevDays)
    IN /\ view.mtd = Some(SumQuantity(view.rows, view.today, InMonth))
       /\ view.prev_mtd = Some(SumQuantity(view.rows, view.today, InPrev))

----------------------------------------------------------------------------
(* The day of daily_sales and the day the windows end on *)

\* the row of metrics_daily with the key (sku, date), if there is one
MetricOf(tbl, sku, date) ==
  LET hits == SelectSeq(tbl, LAMBDA row : row.sku = sku /\ row.date = date)
  IN IF hits = <<>> THEN Null ELSE Some(Head(hits))

(* C27: whenever a run stores the DailyMetric row of a SKU, the            *)
(* daily_sales of the row stored under (sku, today) is the last element    *)
(* of the 30-element sequence of days from which rolling30 and rolling7    *)
(* of that row were summed, at whatever times the run read the clock.      *)
C27_DailySalesIsLastDay ==
  [][\A r \in Runs :
       (run[r].pc = "metric" /\ run'[r].pc # "metric") =>
         LET rec == run[r]
             days == DaysOf(rec.daily, rec.windowNow)
             stored == MetricOf(metrics_daily', Head(rec.skus), rec.today)
         IN /\ stored # Null
            /\ Val(stored).rolling30.num = SumSeq(days)
            /\ Val(stored).daily_sales = days[Len(days)]]_vars

----------------------------------------------------------------------------
(* The worker's state file *)

(* C28: the worker's state file gets a new last_run only in the step that  *)
(* ends a worker run as completed, after its product, inventory, order     *)
(* and metrics stages have all stored their rows and none of its fetches   *)
(* has failed; the step in which a run fails leaves last_run as it was.    *)
C28_LastRunOnlyAfterSuccess ==
  [][/\ stateFile' # stateFile =>
          \E r \in Runs :
            /\ run[r].kind = "worker"
            /\ run[r].pc = "complete"
            /\ run[r].skus = <<>>
            /\ run[r].fetchFailed = {}
            /\ run[r].wrote = {"products", "inventory", "orders", "metrics"}
            /\ run'[r].outcome = "completed"
            /\ stateFile' = Some(clock)
     /\ \A r \in Runs :
          (run[r].pc \notin {"idle", "done"} /\ run'[r].outcome = "failed") =>
            stateFile' = stateFile]_vars

\* a worker run has completed and saved last_run, and the worker run after
\* it has failed on a later day
C28_Witness ==
  /\ run[1].kind = "worker" /\ run[1].outcome = "completed"
  /\ run[2].kind = "worker" /\ run[2].outcome = "failed"
  /\ run[2].wrote # {}
  /\ stateFile = Some(0)
  /\ clock = 1

----------------------------------------------------------------------------
(* One order by webhook and by sync *)

\* the number of the order a stored order_id names: the id itself, or the
\* last segment of a global id
OrderNumber(order_id) == order_id[Len(order_id)]

(* C29: whichever of the webhook receiver and the sync stored an order     *)
(* first, and however their statements interleave, the rows of one order   *)
(* all carry the same order_id value and there is only one row for each    *)
(* SKU of the order.                                                       *)
C29_OneRowPerOrderAndSku ==
  \A i, j \in DOMAIN orders_lineitems :
    OrderNumber(orders_lineitems[i].order_id)
        = OrderNumber(orders_lineitems[j].order_id) =>
      /\ orders_lineitems[i].order_id = orders_lineitems[j].order_id
      /\ orders_lineitems[i].sku = orders_lineitems[j].sku => i = j

----------------------------------------------------------------------------
(* The rollup of two overlapping runs *)

\* the run has finished its rollup, or has answered that it completed
Finished(r) ==
  \/ run[r].pc = "complete"
  \/ run[r].pc = "done" /\ run[r].outcome = "completed"

(* C30 as stated: once two overlapping runs have both finished, the        *)
(* DailyMetric row of every SKU for today is the rollup of the order line  *)
(* items and inventory rows that are then in the store.                    *)
C30_RollupOfFinalStore ==
  (\A r \in Runs : Finished(r)) =>
    \A i \in 1..Len(products) :
      MetricOf(metrics_daily, products[i].sku, clock)
        = Some(RollupRow(products[i].sku, orders_lineitems, inventory_levels, clock))

(* C30, amended: once two overlapping runs have both finished their        *)
(* rollup, every SKU has one DailyMetric row for today, and it is the row  *)
(* that one of the two runs computed: the rollup of the order line items   *)
(* and inventory rows that were in the store when that run read them (the  *)
(* last write wins), which the other run may have added to since.          *)
C30_RollupOfLastWriter ==
  (\A r \in Runs : run[r].pc = "complete") =>
    \A i \in 1..Len(products) :
      LET m == MetricOf(metrics_daily, products[i].sku, clock)
      IN /\ m # Null
         /\ \E c \in Computed :
              /\ c.row = Val(m)
              /\ c.seenOrders <= Len(orders_lineitems)
              /\ c.row = RollupRow(products[i].sku,
                                   SubSeq(orders_lineitems, 1, c.seenOrders),
                                   c.seenStock, clock)

\* both runs have finished their rollup and the row of a SKU is older than
\* the store: the run that wrote it last had read the stock before the
\* other run changed it
C30_Witness ==
  /\ inventoryKeyed
  /\ \A r \in Runs : run[r].pc = "complete" /\ "metrics" \in run[r].wrote
  /\ \E i \in 1..Len(products) :
       LET m == MetricOf(metrics_daily, products[i].sku, clock)
       IN /\ m # Null
          /\ Val(m).current_stock
               # CurrentStock(SelectStockTotal(inventory_levels, products[i].sku))


====
